---- MODULE Spec2Model ----
(***************************************************************************)
(* Rendezvous and communicator lifecycle of src/src/init.cc.               *)
(*                                                                         *)
(* Every rank is one process running ncclCommInitRankSync: commAlloc,      *)
(* initTransportsRank (AllGather1, topology build, AllGather3,             *)
(* reconciliation, ring/tree connection, collective-network setup and its  *)
(* agreement round) and devCommSetup.  A rank's program position moves     *)
(* from one blocking bootstrap call to the next; the code between two      *)
(* blocking calls is one action.  After initialization the application     *)
(* may call ncclCommAbort and ncclCommDestroy on the handle.               *)
(***************************************************************************)
EXTENDS Integers, Sequences, FiniteSets, TLC

\* ---------------------------------------------------------------- bounds
NRanks == 3
MAXCHANNELS == 6
MaxVal == 2
MaxRepeatedDestroys == 1
MaxInitCalls == 3

Ranks == 0..(NRanks-1)
Slots == 0..(MAXCHANNELS-1)
MaxRingChannels == MAXCHANNELS \div 2

\* A null pointer; transport resources and handles are positive when set.
NULL == 0

Min(a, b) == IF a < b THEN a ELSE b
Max(a, b) == IF a > b THEN a ELSE b

VARIABLES
  hw,                 \* what the machine of each rank reports (fixed per run)
  pc,                 \* program position of each rank
  ret,                \* result of ncclCommInitRankSync on each rank
  newcomm,            \* the caller's handle on each rank
  comm,               \* the ncclComm object of each rank
  heap,               \* allocation state of that object
  graphs,             \* treeGraph, ringGraph, collNetGraph locals of each rank
  loc,                \* other locals of initTransportsRank
  allGather1Data,     \* bootstrap board of AllGather1
  allGather3Data,     \* bootstrap board of AllGather3
  allGatherFailures,  \* bootstrap board of checkCollNetSetup
  intraBarrier,       \* arrivals at the barrier of each intra-process group
  log,                \* per rank: what was requested and released, in order
  api,                \* per rank: last lifecycle call and its result
  initialized,        \* per process: the static flag of ncclInit
  initLock,           \* per process: the thread holding initLock, -1 when free
  caller,             \* per thread: its position in ncclInit and what it got
  intraMem,           \* per allocating rank: the shared intra-process structures
  allConnects,        \* per logical channel: bootstrap board of collNetSetup
  sendrecvExchange    \* per receiving rank: the exchange records sent to it

\* The state that only the step-by-step specifications of ncclInit, of
\* ncclCommSetIntra and of collNetSetup move.
fineVars == <<initialized, initLock, caller, intraMem, allConnects, sendrecvExchange>>

vars == <<hw, pc, ret, newcomm, comm, heap, graphs, loc,
          allGather1Data, allGather3Data, allGatherFailures, intraBarrier, log, api,
          fineVars>>

\* ------------------------------------------------------------ environment
\* What ncclTopoCompute finds on one rank for one graph.
Graph(n, s, si, se, ti, te) ==
  [nChannels |-> n, sameChannels |-> s, speedIntra |-> si, speedInter |-> se,
   typeIntra |-> ti, typeInter |-> te]

\* What one call sequence collNetSetup(recv), collNetSetup(send) leaves on a
\* rank for one logical channel: whether either call returned something
\* other than 1, and which connector of the root peer got resources.
CollNetOutcomes ==
  {"notMaster", "connected", "unsupported", "recvConnectFailed", "sendConnectFailed"}

LastRank == NRanks - 1

\* Two hosts, the last rank alone on the second one; every device distinct;
\* two channels everywhere; the collective network enabled and working.
HwBase ==
  [ hostHash       |-> [r \in Ranks |-> IF r = LastRank THEN 1 ELSE 0],
    pidHash        |-> [r \in Ranks |-> IF r = LastRank THEN 1 ELSE 0],
    busId          |-> [r \in Ranks |-> r],
    cudaCompCap    |-> [r \in Ranks |-> 9],
    ring           |-> [r \in Ranks |-> Graph(2, 1, MaxVal, MaxVal, MaxVal, MaxVal)],
    tree           |-> [r \in Ranks |-> Graph(2, 1, MaxVal, MaxVal, MaxVal, MaxVal)],
    collNet        |-> [r \in Ranks |-> Graph(2, 1, MaxVal, MaxVal, MaxVal, MaxVal)],
    firstRank      |-> [r \in Ranks |-> IF r = LastRank THEN LastRank ELSE 0],
    collNetEnable  |-> [r \in Ranks |-> 1],
    collNetPlugin  |-> [r \in Ranks |-> TRUE],
    collNetOutcome |-> [r \in Ranks |-> IF r \in {0, LastRank} THEN "connected"
                                         ELSE "notMaster"],
    rings          |-> [c \in 0..(MAXCHANNELS - 1) |-> [i \in 1..NRanks |-> i - 1]],
    fault          |-> [r \in Ranks |-> "none"],
    callerHandle   |-> [r \in Ranks |-> NULL],
    call           |-> [r \in Ranks |-> [newcomm |-> 1, nranks |-> NRanks, myrank |-> r]],
    extra          |-> [r \in Ranks |-> [op |-> "none", comm |-> 1, out |-> 1, ndev |-> 0]],
    commIdEnv      |-> FALSE,
    cgMdLaunch     |-> [r \in Ranks |-> 1],
    cudartVersion  |-> 9000,
    launchModeEnv  |-> "",
    nullComm       |-> [r \in Ranks |-> FALSE],
    nRanks         |-> NRanks,
    collNetIntra   |-> [r \in Ranks |-> IF r = LastRank THEN <<LastRank>>
                                         ELSE [i \in 1..LastRank |-> i - 1]],
    probe          |-> [r \in Ranks |-> [recv |-> 1, send |-> 1]],
    cnFault        |-> [r \in Ranks |->
                          [side |-> "none", call |-> "none", code |-> "ncclSuccess"]],
    buffSizeEnv    |-> [r \in Ranks |-> <<-2, -2, -2>>],
    cpuArch        |-> [r \in Ranks |-> "X86"],
    intraAllocFail |-> [r \in Ranks |-> 0] ]

\* Hosts and devices vary: some runs have two ranks on one device.
HwDevices ==
  { [HwBase EXCEPT !.hostHash = h, !.pidHash = h, !.busId = b] :
      h \in [Ranks -> 0..1], b \in [Ranks -> 0..1] }

\* The channel counts found by the ring search vary per rank; the tree search
\* is bounded by the ring's count (maxChannels, line 887) and finds one less
\* on odd ranks.
HwChannels ==
  { [HwBase EXCEPT
       !.ring = [r \in Ranks |-> [HwBase.ring[r] EXCEPT !.nChannels = n[r]]],
       !.tree = [r \in Ranks |-> [HwBase.tree[r] EXCEPT
                    !.nChannels = Max(1, n[r] - (r % 2))]]] :
      n \in [Ranks -> 1..MaxRingChannels] }

\* The graph attributes vary per rank and per graph so that each field has
\* its minimum on a different rank: level l gives (min(l,1), l, MaxVal-l, l,
\* MaxVal-l); the ring and collNet graphs take the level of the next ranks.
Leveled(l) == Graph(2, Min(l, 1), l, MaxVal - l, l, MaxVal - l)

HwGraphs ==
  { [HwBase EXCEPT
       !.tree    = [r \in Ranks |-> Leveled(l[r])],
       !.ring    = [r \in Ranks |-> Leveled(l[(r + 1) % NRanks])],
       !.collNet = [r \in Ranks |-> Leveled(l[(r + 2) % NRanks])]] :
      l \in [Ranks -> 0..MaxVal] }

\* The first rank of the local ring published by each rank varies.
HwNodes == { [HwBase EXCEPT !.firstRank = f] : f \in [Ranks -> Ranks] }

\* The outcome of the collective-network setup varies on ranks 0, 1 and the
\* last rank; any rank between them is not a master.
HwCollNet ==
  { [HwBase EXCEPT !.collNetOutcome =
        [r \in Ranks |-> IF r \in DOMAIN o THEN o[r] ELSE "notMaster"]] :
      o \in [{0, 1, LastRank} -> CollNetOutcomes] }

\* The calls of ncclCommInitRankSync and initTransportsRank that are made to
\* fail, one per run: hipEventCreateWithFlags in commAlloc (line 381),
\* bootstrapInit (750), ncclTopoGetSystem (812), computeBuffSizes (1070),
\* ncclTransportP2pSetup of the rings (1079), ncclTransportP2pSetup of the
\* collective network (1112), ncclTopoTuneModel (1120), devCommSetup (1145).
FaultPoints ==
  {"commAlloc", "bootstrapInit", "topo", "computeBuffSizes", "ringConnect",
   "collNet", "tune", "devCommSetup"}

\* The result the failing call returns.
FaultCode(point) ==
  IF point \in {"commAlloc", "devCommSetup", "hipGetDevice", "hipFree"}
    THEN "ncclUnhandledCudaError"
  ELSE "ncclSystemError"

\* What the caller's handle variable holds before the call when it is not
\* NULL: a pointer that is not a communicator of this run.
StaleHandle == NRanks + 1

\* One call fails on one rank; the caller's handle variable of that rank is
\* NULL or stale on entry.
HwFaults ==
  { [HwBase EXCEPT !.fault[r] = f, !.callerHandle[r] = h] :
      r \in Ranks, f \in FaultPoints, h \in {NULL, StaleHandle} }

\* The calls made before the argument checks of ncclCommInitRank and
\* ncclGetUniqueId that can fail: hipGetDevice (line 1192),
\* bootstrapCreateRoot (1161), ncclInit (1164, 152), hipFree(NULL) (1169).
EntryFaults == {"hipGetDevice", "bootstrapCreateRoot", "ncclInit", "hipFree"}

\* The entry points a thread calls before ncclCommInitRank, and those it
\* calls on its communicator afterwards.
FirstCalls == {"ncclGetUniqueId", "ncclCommInitAll"}
Accessors ==
  {"ncclCommGetAsyncError", "ncclCommCount", "ncclCommCuDevice", "ncclCommUserRank"}

\* The arguments of one thread's ncclCommInitRank vary (the thread of the
\* first or of the last rank): the handle pointer
\* NULL or not, the rank count and the rank in or out of range (the
\* rendezvous is that of NRanks ranks, so the only valid pair of rank r is
\* (NRanks, r)), NCCL_COMM_ID set or not, one early call failing or none.
HwCalls ==
  UNION { { [HwBase EXCEPT !.call[r] = [newcomm |-> p, nranks |-> n, myrank |-> k],
                           !.callerHandle[r] = h, !.commIdEnv = e, !.fault[r] = f] :
              p \in {NULL, 1}, n \in {-1, 0, NRanks}, k \in {-1, r, NRanks},
              h \in {NULL, StaleHandle}, e \in BOOLEAN,
              f \in {"none"} \cup EntryFaults } : r \in {0, LastRank} }

\* One thread makes one more call: ncclGetUniqueId or ncclCommInitAll before
\* its ncclCommInitRank, or an accessor on its communicator afterwards.  The
\* pointer arguments are NULL or not; ncclCommInitAll is called with a
\* device count below one.
HwExtra ==
  { [HwBase EXCEPT !.extra[r] = [op |-> o, comm |-> c, out |-> p, ndev |-> n],
                   !.fault[r] = f] :
      r \in {0, LastRank}, o \in FirstCalls \cup Accessors, c \in {NULL, 1},
      p \in {NULL, 1}, n \in {-1, 0}, f \in {"none", "ncclInit"} }

\* The ring orders ncclTopoPostset writes into the rings array vary: every
\* order of the ranks on the even channels, the reverse order on the odd ones.
RingOrders ==
  {p \in [1..NRanks -> 0..(NRanks - 1)] : \A i, j \in 1..NRanks : p[i] = p[j] => i = j}

HwRings ==
  { [HwBase EXCEPT !.rings = [c \in 0..(MAXCHANNELS - 1) |->
        IF c % 2 = 0 THEN p ELSE [i \in 1..NRanks |-> p[NRanks + 1 - i]]]] :
      p \in RingOrders }

\* What the condition of lines 1093-1095 reads varies: one node or two,
\* NCCL_COLLNET_ENABLE unset, set, or set on rank 0 only, the plugin present
\* or not, the collective-network graph with channels or without.
HwGate ==
  { [HwBase EXCEPT
       !.firstRank = [r \in Ranks |-> IF oneNode THEN 0 ELSE HwBase.firstRank[r]],
       !.collNetEnable = [r \in Ranks |-> IF r <= enabledUpTo THEN 1 ELSE 0],
       !.collNetPlugin = [r \in Ranks |-> plugin],
       !.collNet = [r \in Ranks |-> [HwBase.collNet[r] EXCEPT !.nChannels = n]]] :
      oneNode \in BOOLEAN, enabledUpTo \in {-1, 0, LastRank}, plugin \in BOOLEAN,
      n \in {0, 2} }

\* One device attached twice, a single node, the feature switched off.
HwCore ==
  { HwBase,
    [HwBase EXCEPT !.busId = [r \in Ranks |-> IF r = 1 THEN 0 ELSE r]],
    [HwBase EXCEPT !.firstRank = [r \in Ranks |-> 0]],
    [HwBase EXCEPT !.collNetEnable = [r \in Ranks |-> 0]],
    [HwBase EXCEPT !.collNetOutcome =
        [r \in Ranks |-> IF r = 0 THEN "recvConnectFailed"
                         ELSE IF r = LastRank THEN "connected" ELSE "notMaster"]] }

\* The size of the communicator the run creates, and the ranks in it: the
\* application creates it over all its ranks or over rank 0 alone.
nRanks == hw.nRanks
Members == 0..(nRanks - 1)

\* ------------------------------------------------------------------ state
\* A channel slot.  preset is the ring/tree membership ncclTopoPreset wrote
\* (the number of the channel it belongs to, -1 while zeroed); send and recv
\* are the transportResources of the collective-network root peer
\* (channel->peers+nranks), sendComm and recvComm whether its transportComm
\* is set.
ZeroChannel ==
  [id |-> 0, preset |-> -1, userRanks |-> <<>>,
   send |-> NULL, recv |-> NULL, sendComm |-> FALSE, recvComm |-> FALSE]

\* The communicator as ncclCalloc leaves it.
ZeroComm ==
  [rank |-> 0, nRanks |-> 0, cudaDev |-> 0, busId |-> 0,
   nChannels |-> 0, nNodes |-> 0, node |-> 0, collNetSupport |-> 0,
   abortFlag |-> 0, p2pNet |-> 0, fatalError |-> "ncclSuccess",
   bootstrap |-> NULL, peerInfo |-> NULL, topo |-> NULL, devComm |-> NULL,
   cliqueManager |-> NULL,
   intraRank |-> 0, intraRanks |-> 0, intraRank0 |-> 0,
   intraBarrier |-> NULL, intraParams |-> NULL, intraCudaDevs |-> NULL,
   intraCGMode |-> NULL, intraCC |-> NULL, launchMode |-> "none",
   asyncOpCount |-> 0, asyncTotalSize |-> 0, p2pSendCount |-> 0, p2pRecvCount |-> 0,
   buffSizes |-> <<0, 0, 0>>, devBuffSizes |-> <<0, 0, 0>>,
   channels |-> [c \in Slots |-> ZeroChannel]]

ZeroGraph == [pattern |-> "none", nChannels |-> 0, sameChannels |-> 0,
              speedIntra |-> 0, speedInter |-> 0, typeIntra |-> 0, typeInter |-> 0]

ZeroLoc ==
  [nChannelsOrig |-> 0, nodesFirstRank |-> <<>>, nodesTreePatterns |-> <<>>,
   intraRank0 |-> -1, intraRank |-> -1, intraRanks |-> 0,
   tmpNnodes |-> 0, minCompCap |-> 0, maxCompCap |-> 0, collNetSetupFail |-> 0,
   cnChannel |-> 0, cnRet |-> 0, rankInCollNet |-> -1, masterConnects |-> <<>>,
   affinity |-> "caller", held |-> {}]

\* A thread that has not called ncclInit: calls counts the calls it began,
\* ran the times it took the body to its end, after whether the call it is
\* in (or its last one) began when the body had already succeeded.
ZeroCaller == [pc |-> "out", calls |-> 0, res |-> "none", ran |-> 0, after |-> FALSE]

\* The shared structures of one process as ncclCalloc leaves them: the
\* launch-mode flag, the compute capability, the device table by intraRank.
ZeroIntra == [CGMode |-> 0, CC |-> 0, cudaDevs |-> <<>>]

InitAt(HwSet, start) ==
  /\ hw \in HwSet
  /\ pc = [r \in Ranks |-> start]
  /\ ret = [r \in Ranks |-> "none"]
  /\ newcomm = [r \in Ranks |-> hw.callerHandle[r]]
  /\ comm = [r \in Ranks |-> ZeroComm]
  /\ heap = [r \in Ranks |-> "none"]
  /\ graphs = [r \in Ranks |-> [tree |-> ZeroGraph, ring |-> ZeroGraph, collNet |-> ZeroGraph]]
  /\ loc = [r \in Ranks |-> ZeroLoc]
  /\ allGather1Data = <<>>
  /\ allGather3Data = <<>>
  /\ allGatherFailures = <<>>
  /\ intraBarrier = [r \in Ranks |-> 0]
  /\ log = [r \in Ranks |-> <<>>]
  /\ api = [r \in Ranks |-> [op |-> "none", arg |-> "none", res |-> "none",
                             out |-> <<>>, destroys |-> 0]]
  /\ initialized = [p \in Ranks |-> FALSE]
  /\ initLock = [p \in Ranks |-> -1]
  /\ caller = [r \in Ranks |-> ZeroCaller]
  /\ intraMem = [r \in Ranks |-> ZeroIntra]
  /\ allConnects = [c \in 0..(MaxRingChannels - 1) |-> <<>>]
  /\ sendrecvExchange = [r \in Ranks |-> <<>>]

\* The state in which every rank has entered ncclCommInitRankSync.
InitWith(HwSet) == InitAt(HwSet, "commAlloc")

\* The handle of rank r's communicator object.
Handle(r) == r + 1

\* ------------------------------------------------------------- commAlloc
\* The cleanup label of ncclCommInitRankSync, lines 1150-1153, reached when
\* commAlloc failed before writing *comret: *newcomm is what the caller's
\* variable held.  If that is NULL nothing is read through it.  Otherwise
\* (*newcomm)->bootstrap is read through a pointer that is no communicator:
\* the read yields NULL, or something non-NULL that is then passed to
\* bootstrapAbort, or the process faults.
CleanupUnset(r, code) ==
  IF newcomm[r] = NULL
    THEN /\ pc' = [pc EXCEPT ![r] = "failed"]
         /\ ret' = [ret EXCEPT ![r] = code]
         /\ UNCHANGED <<newcomm, log>>
    ELSE \/ /\ pc' = [pc EXCEPT ![r] = "failed"]
            /\ ret' = [ret EXCEPT ![r] = code]
            /\ newcomm' = [newcomm EXCEPT ![r] = NULL]
            /\ UNCHANGED log
         \/ /\ pc' = [pc EXCEPT ![r] = "failed"]
            /\ ret' = [ret EXCEPT ![r] = code]
            /\ newcomm' = [newcomm EXCEPT ![r] = NULL]
            /\ log' = [log EXCEPT ![r] = Append(@, <<"bootstrapAbort", "wild", 0>>)]
         \/ /\ pc' = [pc EXCEPT ![r] = "crashed"]
            /\ UNCHANGED <<ret, newcomm, log>>

\* Lines 368-375: the argument checks of commAlloc.
commAllocArgs(ndev, rank) ==
  IF ndev < 1 THEN "ncclInvalidArgument"
  ELSE IF rank >= ndev \/ rank < 0 THEN "ncclInvalidArgument"
  ELSE "ncclSuccess"

\* The channel slots are left as ncclCalloc zeroed them.
MarkChannels_Zeroed(chs) == chs

\* Line 440: every channel slot is marked as not initialized.
MarkChannels(chs) == [c \in Slots |-> [chs[c] EXCEPT !.id = -1]]

\* commAlloc(comret, ndev, rank) as called by rank r's ncclCommInitRankSync.
commAlloc(r) ==
  /\ pc[r] = "commAlloc"
  /\ r \in Members
  /\ IF commAllocArgs(hw.call[r].nranks, hw.call[r].myrank) # "ncclSuccess"
       THEN /\ CleanupUnset(r, commAllocArgs(hw.call[r].nranks, hw.call[r].myrank))
            /\ UNCHANGED <<heap, comm>>
     ELSE IF hw.fault[r] = "commAlloc"
       THEN /\ CleanupUnset(r, FaultCode("commAlloc"))
            /\ UNCHANGED <<heap, comm>>
       ELSE /\ heap' = [heap EXCEPT ![r] = "live"]
            /\ comm' = [comm EXCEPT ![r] =
                  [ZeroComm EXCEPT !.rank = hw.call[r].myrank,
                                   !.nRanks = hw.call[r].nranks, !.cudaDev = r,
                                   !.busId = hw.busId[r], !.fatalError = "ncclSuccess",
                                   !.abortFlag = 0, !.p2pNet = 0, !.collNetSupport = 0,
                                   !.asyncOpCount = 0, !.asyncTotalSize = 0,
                                   !.p2pSendCount = 0, !.p2pRecvCount = 0,
                                   !.channels = MarkChannels(ZeroComm.channels)]]
            /\ newcomm' = [newcomm EXCEPT ![r] = Handle(r)]
            /\ pc' = [pc EXCEPT ![r] = "bootstrapInit"]
            /\ UNCHANGED <<ret, log>>
  /\ UNCHANGED <<hw, fineVars, graphs, loc, allGather1Data, allGather3Data,
                 allGatherFailures, intraBarrier, api>>

\* ------------------------------------------------- ncclCommInitRankSync
\* The cleanup label of ncclCommInitRankSync: the bootstrap handle is aborted
\* if it was opened and the caller's handle is cleared.  The communicator
\* object itself is not freed.
InitFailed(r, code, c) ==
  /\ pc' = [pc EXCEPT ![r] = "failed"]
  /\ ret' = [ret EXCEPT ![r] = code]
  /\ comm' = [comm EXCEPT ![r] = [c EXCEPT !.bootstrap = NULL]]
  /\ newcomm' = [newcomm EXCEPT ![r] = NULL]
  /\ log' = [log EXCEPT ![r] =
        IF c.bootstrap # NULL THEN Append(@, <<"bootstrapAbort", "bootstrap", 0>>) ELSE @]

\* ------------------------------------------------------------ AllGather1
\* bootstrapAllGather: every rank contributes its entry and blocks until all
\* ranks have contributed; the buffer then holds all entries in rank order.
Gathered(board) == DOMAIN board = Members

fillInfo(r) ==
  [rank |-> r, cudaDev |-> r, hostHash |-> hw.hostHash[r],
   pidHash |-> hw.pidHash[r], busId |-> hw.busId[r]]

\* The topology is built before the first AllGather is called.
AllGather1Send_TopoFirst(r) ==
  /\ pc[r] = "bootstrapInit"
  /\ comm' = [comm EXCEPT ![r].bootstrap = 1, ![r].topo = 1]
  /\ loc' = [loc EXCEPT ![r].held = @ \cup {"allGather1Data"}]
  /\ allGather1Data' = allGather1Data @@
        (r :> [peerInfo |-> fillInfo(r),
               comm |-> IF hw.nullComm[r] THEN NULL ELSE Handle(r),
               cudaCompCap |-> hw.cudaCompCap[r]])
  /\ log' = [log EXCEPT ![r] = Append(@, <<"topo", "build", 0>>)]
  /\ pc' = [pc EXCEPT ![r] = "AllGather1"]
  /\ UNCHANGED <<hw, fineVars, ret, newcomm, heap, graphs, allGather3Data,
                 allGatherFailures, intraBarrier, api>>

\* Lines 744-765: bootstrapInit, fillInfo, and the call of the first AllGather.
\* The entry holds the communicator's address (line 761); what the peers
\* receive in its place is NULL in the runs where hw.nullComm says so.
AllGather1Send(r) ==
  /\ pc[r] = "bootstrapInit"
  /\ IF hw.fault[r] = "bootstrapInit"
       THEN /\ InitFailed(r, FaultCode("bootstrapInit"), comm[r])
            /\ UNCHANGED <<loc, allGather1Data>>
       ELSE /\ comm' = [comm EXCEPT ![r].bootstrap = 1]
            /\ loc' = [loc EXCEPT ![r].held = @ \cup {"allGather1Data"}]
            /\ allGather1Data' = allGather1Data @@
                  (r :> [peerInfo |-> fillInfo(r),
               comm |-> IF hw.nullComm[r] THEN NULL ELSE Handle(r),
                         cudaCompCap |-> hw.cudaCompCap[r]])
            /\ pc' = [pc EXCEPT ![r] = "AllGather1"]
            /\ UNCHANGED <<ret, newcomm, log>>
  /\ UNCHANGED <<hw, fineVars, heap, graphs, allGather3Data,
                 allGatherFailures, intraBarrier, api>>

\* The scan started after the own entry: only higher ranks are compared.
DuplicateGPU_Above(data, rank) ==
  \E i \in Members :
     /\ i > rank
     /\ data[i].peerInfo.hostHash = data[rank].peerInfo.hostHash
     /\ data[i].peerInfo.busId = data[rank].peerInfo.busId

\* Lines 768-774: the scan for another rank on this rank's device.  The loop
\* returns at the first i that matches.
DuplicateGPU(data, rank) ==
  \E i \in Members :
     /\ i # rank
     /\ data[i].peerInfo.hostHash = data[rank].peerInfo.hostHash
     /\ data[i].peerInfo.busId = data[rank].peerInfo.busId

\* The scan grouping by process hash alone, whatever the host.
RECURSIVE IntraScan_PidOnly(_, _, _, _)
IntraScan_PidOnly(data, rank, i, st) ==
  IF i = nRanks THEN st
  ELSE
    LET sameHost == data[i].peerInfo.hostHash = data[rank].peerInfo.hostHash
        samePid  == data[i].peerInfo.pidHash = data[rank].peerInfo.pidHash
        s1 == IF samePid
                THEN [st EXCEPT !.intraRank0 = IF st.intraRanks = 0 THEN i ELSE @,
                                !.intraRank = IF i = rank THEN st.intraRanks ELSE @,
                                !.intraRanks = @ + 1]
                ELSE st
        s2 == IF sameHost THEN s1
              ELSE IF s1.tmpNnodes = 1
                THEN [s1 EXCEPT !.otherHostHash = data[i].peerInfo.hostHash,
                                !.tmpNnodes = 2]
              ELSE IF s1.tmpNnodes = 2 /\ s1.otherHostHash # data[i].peerInfo.hostHash
                THEN [s1 EXCEPT !.tmpNnodes = 3]
              ELSE s1
        s3 == [s2 EXCEPT !.minCompCap = Min(data[i].cudaCompCap, @),
                         !.maxCompCap = Max(data[i].cudaCompCap, @)]
    IN IntraScan_PidOnly(data, rank, i + 1, s3)

\* The scan counting every entry of another host as a new host.
RECURSIVE IntraScan_CountEntries(_, _, _, _)
IntraScan_CountEntries(data, rank, i, st) ==
  IF i = nRanks THEN st
  ELSE
    LET sameHost == data[i].peerInfo.hostHash = data[rank].peerInfo.hostHash
        samePid  == data[i].peerInfo.pidHash = data[rank].peerInfo.pidHash
        s1 == IF sameHost /\ samePid
                THEN [st EXCEPT !.intraRank0 = IF st.intraRanks = 0 THEN i ELSE @,
                                !.intraRank = IF i = rank THEN st.intraRanks ELSE @,
                                !.intraRanks = @ + 1]
                ELSE st
        s2 == IF sameHost THEN s1
              ELSE IF s1.tmpNnodes = 1
                THEN [s1 EXCEPT !.otherHostHash = data[i].peerInfo.hostHash,
                                !.tmpNnodes = 2]
              ELSE IF s1.tmpNnodes = 2
                THEN [s1 EXCEPT !.tmpNnodes = 3]
              ELSE s1
        s3 == [s2 EXCEPT !.minCompCap = Min(data[i].cudaCompCap, @),
                         !.maxCompCap = Max(data[i].cudaCompCap, @)]
    IN IntraScan_CountEntries(data, rank, i + 1, s3)

\* The scan storing the index of the entry, not the count so far, as intraRank.
RECURSIVE IntraScan_GlobalIndex(_, _, _, _)
IntraScan_GlobalIndex(data, rank, i, st) ==
  IF i = nRanks THEN st
  ELSE
    LET sameHost == data[i].peerInfo.hostHash = data[rank].peerInfo.hostHash
        samePid  == data[i].peerInfo.pidHash = data[rank].peerInfo.pidHash
        s1 == IF sameHost /\ samePid
                THEN [st EXCEPT !.intraRank0 = IF st.intraRanks = 0 THEN i ELSE @,
                                !.intraRank = IF i = rank THEN i ELSE @,
                                !.intraRanks = @ + 1]
                ELSE st
        s2 == IF sameHost THEN s1
              ELSE IF s1.tmpNnodes = 1
                THEN [s1 EXCEPT !.otherHostHash = data[i].peerInfo.hostHash,
                                !.tmpNnodes = 2]
              ELSE IF s1.tmpNnodes = 2 /\ s1.otherHostHash # data[i].peerInfo.hostHash
                THEN [s1 EXCEPT !.tmpNnodes = 3]
              ELSE s1
        s3 == [s2 EXCEPT !.minCompCap = Min(data[i].cudaCompCap, @),
                         !.maxCompCap = Max(data[i].cudaCompCap, @)]
    IN IntraScan_GlobalIndex(data, rank, i + 1, s3)

\* Lines 777-799: one pass over the gathered array, i ascending.
RECURSIVE IntraScan(_, _, _, _)
IntraScan(data, rank, i, st) ==
  IF i = nRanks THEN st
  ELSE
    LET sameHost == data[i].peerInfo.hostHash = data[rank].peerInfo.hostHash
        samePid  == data[i].peerInfo.pidHash = data[rank].peerInfo.pidHash
        s1 == IF sameHost /\ samePid
                THEN [st EXCEPT !.intraRank0 = IF st.intraRanks = 0 THEN i ELSE @,
                                !.intraRank = IF i = rank THEN st.intraRanks ELSE @,
                                !.intraRanks = @ + 1]
                ELSE st
        s2 == IF sameHost THEN s1
              ELSE IF s1.tmpNnodes = 1
                THEN [s1 EXCEPT !.otherHostHash = data[i].peerInfo.hostHash,
                                !.tmpNnodes = 2]
              ELSE IF s1.tmpNnodes = 2 /\ s1.otherHostHash # data[i].peerInfo.hostHash
                THEN [s1 EXCEPT !.tmpNnodes = 3]
              ELSE s1
        s3 == [s2 EXCEPT !.minCompCap = Min(data[i].cudaCompCap, @),
                         !.maxCompCap = Max(data[i].cudaCompCap, @)]
    IN IntraScan(data, rank, i + 1, s3)

IntraRanks(data, rank) ==
  IntraScan(data, rank, 0,
    [intraRank0 |-> -1, intraRank |-> -1, intraRanks |-> 0, otherHostHash |-> -1,
     tmpNnodes |-> 1, minCompCap |-> data[rank].cudaCompCap,
     maxCompCap |-> data[rank].cudaCompCap])

\* The duplicate check placed after the topology build.
AllGather1Recv_CheckAfterTopo(r) ==
  /\ pc[r] = "AllGather1"
  /\ Gathered(allGather1Data)
  /\ DuplicateGPU(allGather1Data, r)
  /\ pc' = [pc EXCEPT ![r] = "failed"]
  /\ ret' = [ret EXCEPT ![r] = "ncclInvalidUsage"]
  /\ comm' = [comm EXCEPT ![r].bootstrap = NULL, ![r].peerInfo = 1, ![r].topo = 1]
  /\ newcomm' = [newcomm EXCEPT ![r] = NULL]
  /\ log' = [log EXCEPT ![r] = @ \o <<<<"topo", "build", 0>>,
                                       <<"bootstrapAbort", "bootstrap", 0>>>>]
  /\ UNCHANGED <<hw, fineVars, heap, graphs, loc, allGather1Data, allGather3Data,
                 allGatherFailures, intraBarrier, api>>

\* The intra-process grouping is not checked: the rank goes on to the
\* topology with whatever the scan left.
AllGather1Recv_Unchecked(r) ==
  /\ pc[r] = "AllGather1"
  /\ Gathered(allGather1Data)
  /\ LET st == IntraRanks(allGather1Data, r)
         c1 == [comm[r] EXCEPT !.peerInfo = 1]
     IN IF DuplicateGPU(allGather1Data, r)
          THEN /\ InitFailed(r, "ncclInvalidUsage", c1)
               /\ UNCHANGED loc
        ELSE /\ comm' = [comm EXCEPT ![r] = c1]
             /\ loc' = [loc EXCEPT ![r].intraRank0 = st.intraRank0,
                                   ![r].intraRank = st.intraRank,
                                   ![r].intraRanks = st.intraRanks,
                                   ![r].tmpNnodes = st.tmpNnodes,
                                   ![r].minCompCap = st.minCompCap,
                                   ![r].maxCompCap = st.maxCompCap]
             /\ pc' = [pc EXCEPT ![r] = "topo"]
             /\ UNCHANGED <<ret, newcomm, log>>
  /\ UNCHANGED <<hw, fineVars, heap, graphs, allGather1Data, allGather3Data,
                 allGatherFailures, intraBarrier, api>>

\* Lines 765-807: the AllGather returns; peerInfo is filled, a duplicate
\* device is rejected, the intra-node ranks are computed.
AllGather1Recv(r) ==
  /\ pc[r] = "AllGather1"
  /\ Gathered(allGather1Data)
  /\ LET st == IntraRanks(allGather1Data, r)
         c1 == [comm[r] EXCEPT !.peerInfo = 1]
     IN IF DuplicateGPU(allGather1Data, r)
          THEN /\ InitFailed(r, "ncclInvalidUsage", c1)
               /\ UNCHANGED loc
        ELSE IF st.intraRank = -1 \/ st.intraRank0 = -1
                \/ allGather1Data[st.intraRank0].comm = NULL
          THEN /\ InitFailed(r, "ncclInternalError", c1)
               /\ UNCHANGED loc
        ELSE /\ comm' = [comm EXCEPT ![r] = c1]
             /\ loc' = [loc EXCEPT ![r].intraRank0 = st.intraRank0,
                                   ![r].intraRank = st.intraRank,
                                   ![r].intraRanks = st.intraRanks,
                                   ![r].tmpNnodes = st.tmpNnodes,
                                   ![r].minCompCap = st.minCompCap,
                                   ![r].maxCompCap = st.maxCompCap]
             /\ pc' = [pc EXCEPT ![r] = "topo"]
             /\ UNCHANGED <<ret, newcomm, log>>
  /\ UNCHANGED <<hw, fineVars, heap, graphs, allGather1Data, allGather3Data,
                 allGatherFailures, intraBarrier, api>>

\* ------------------------------------------------- topology and AllGather3
\* ncclTopoCompute for one graph: the search fills the channel count and the
\* attributes the hardware gives; the pattern is the one requested.
TopoCompute(pattern, found) ==
  [pattern |-> pattern, nChannels |-> found.nChannels,
   sameChannels |-> found.sameChannels,
   speedIntra |-> found.speedIntra, speedInter |-> found.speedInter,
   typeIntra |-> found.typeIntra, typeInter |-> found.typeInter]

\* ncclTopoPreset: channels 0..n-1 get this rank's ring/tree membership and
\* are then duplicated into slots n..2n-1.
ncclTopoPreset(chs, n) ==
  [s \in Slots |->
     IF s < n THEN [chs[s] EXCEPT !.preset = s]
     ELSE IF s < 2 * n THEN [chs[s - n] EXCEPT !.preset = s - n]
     ELSE chs[s]]

\* struct ncclGraphInfo of one graph (lines 942-959).
GraphInfo(g) ==
  [pattern |-> g.pattern, sameChannels |-> g.sameChannels,
   speedIntra |-> g.speedIntra, speedInter |-> g.speedInter,
   typeIntra |-> g.typeIntra, typeInter |-> g.typeInter]

\* Lines 812-963: the topology is built, the three graphs are computed, the
\* channel count is set to min(tree, ring), the channels are preset and the
\* second AllGather is called.
TopoBuild(r) ==
  /\ pc[r] = "topo"
  /\ IF hw.fault[r] = "topo"
       THEN /\ InitFailed(r, FaultCode("topo"), comm[r])
            /\ UNCHANGED <<graphs, loc, allGather3Data>>
       ELSE
         LET ringGraph == TopoCompute("RING", hw.ring[r])
             treeGraph == TopoCompute(IF loc[r].tmpNnodes <= 2 THEN "TREE"
                                      ELSE "BALANCED_TREE", hw.tree[r])
             collNetGraph == TopoCompute("TREE",
                               [hw.collNet[r] EXCEPT !.nChannels =
                                  IF @ = 0 THEN 0 ELSE ringGraph.nChannels])
             nChannels == Min(treeGraph.nChannels, ringGraph.nChannels)
         IN /\ graphs' = [graphs EXCEPT ![r] =
                   [tree |-> [treeGraph EXCEPT !.nChannels = nChannels],
                    ring |-> [ringGraph EXCEPT !.nChannels = nChannels],
                    collNet |-> collNetGraph]]
            /\ comm' = [comm EXCEPT ![r].topo = 1, ![r].cliqueManager = 1,
                                    ![r].nChannels = nChannels,
                                    ![r].channels = ncclTopoPreset(@, nChannels)]
            /\ allGather3Data' = allGather3Data @@
                  (r :> [cudaCompCap |-> hw.cudaCompCap[r], nChannels |-> nChannels,
                         tree |-> GraphInfo(treeGraph), ring |-> GraphInfo(ringGraph),
                         collNet |-> GraphInfo(collNetGraph),
                         topoRanks |-> [ringRecv0 |-> hw.firstRank[r]]])
            /\ log' = [log EXCEPT ![r] = Append(Append(@, <<"topo", "build", 0>>),
                                                <<"allgather", "AllGather3", 0>>)]
            /\ loc' = [loc EXCEPT ![r].held = @ \cup {"allGather3Data"}]
            /\ pc' = [pc EXCEPT ![r] = "AllGather3"]
            /\ UNCHANGED <<ret, newcomm>>
  /\ UNCHANGED <<hw, fineVars, heap, allGather1Data, allGatherFailures, intraBarrier, api>>

\* The inner loop stopped one node early (n < nNodes-1).
RECURSIVE NodeScan_ShortLoop(_, _, _, _)
NodeScan_ShortLoop(data, rank, i, st) ==
  IF i = nRanks THEN st
  ELSE
    LET firstRank == data[i].topoRanks.ringRecv0
        hits == {n \in 1..(st.nNodes - 1) : st.nodesFirstRank[n] = firstRank}
        known == hits # {}
        node == IF known THEN (CHOOSE n \in hits : \A m \in hits : m <= n) - 1
                ELSE st.nNodes
        s1 == IF known THEN st
              ELSE [st EXCEPT !.nNodes = @ + 1,
                              !.nodesFirstRank = Append(@, firstRank),
                              !.nodesTreePatterns = Append(@, data[i].tree.pattern)]
        s2 == IF i = rank THEN [s1 EXCEPT !.node = node] ELSE s1
    IN NodeScan_ShortLoop(data, rank, i + 1, s2)

\* Lines 969-982: the nodes, by the first rank of each rank's ring.  The
\* inner loop keeps the last n whose first rank matches.
RECURSIVE NodeScan(_, _, _, _)
NodeScan(data, rank, i, st) ==
  IF i = nRanks THEN st
  ELSE
    LET firstRank == data[i].topoRanks.ringRecv0
        hits == {n \in 1..st.nNodes : st.nodesFirstRank[n] = firstRank}
        known == hits # {}
        node == IF known THEN (CHOOSE n \in hits : \A m \in hits : m <= n) - 1
                ELSE st.nNodes
        s1 == IF known THEN st
              ELSE [st EXCEPT !.nNodes = @ + 1,
                              !.nodesFirstRank = Append(@, firstRank),
                              !.nodesTreePatterns = Append(@, data[i].tree.pattern)]
        s2 == IF i = rank THEN [s1 EXCEPT !.node = node] ELSE s1
    IN NodeScan(data, rank, i + 1, s2)

\* The collNet inter-node type reduced against the intra-node type.
ReduceStep_WrongField(acc, e) ==
  LET m(g, pub) == [g EXCEPT !.sameChannels = Min(pub.sameChannels, @),
                             !.speedIntra = Min(pub.speedIntra, @),
                             !.speedInter = Min(pub.speedInter, @),
                             !.typeIntra = Min(pub.typeIntra, @),
                             !.typeInter = Min(pub.typeInter, @)]
      n == Min(e.nChannels, acc.nChannels)
  IN [nChannels |-> n,
      tree |-> [m(acc.tree, e.tree) EXCEPT !.nChannels = n],
      ring |-> [m(acc.ring, e.ring) EXCEPT !.nChannels = n],
      collNet |-> [m(acc.collNet, e.collNet) EXCEPT
                     !.typeInter = Min(e.collNet.typeIntra, acc.collNet.typeInter)]]

\* The channel count aligned on the ring graph only: comm->nChannels and the
\* tree graph keep the local count.
ReduceStep_LocalCount(acc, e) ==
  LET m(g, pub) == [g EXCEPT !.sameChannels = Min(pub.sameChannels, @),
                             !.speedIntra = Min(pub.speedIntra, @),
                             !.speedInter = Min(pub.speedInter, @),
                             !.typeIntra = Min(pub.typeIntra, @),
                             !.typeInter = Min(pub.typeInter, @)]
      n == Min(e.nChannels, acc.ring.nChannels)
  IN [nChannels |-> acc.nChannels,
      tree |-> m(acc.tree, e.tree),
      ring |-> [m(acc.ring, e.ring) EXCEPT !.nChannels = n],
      collNet |-> m(acc.collNet, e.collNet)]

\* One iteration of the loop of lines 988-1008.
ReduceStep(acc, e) ==
  LET m(g, pub) == [g EXCEPT !.sameChannels = Min(pub.sameChannels, @),
                             !.speedIntra = Min(pub.speedIntra, @),
                             !.speedInter = Min(pub.speedInter, @),
                             !.typeIntra = Min(pub.typeIntra, @),
                             !.typeInter = Min(pub.typeInter, @)]
      n == Min(e.nChannels, acc.nChannels)
  IN [nChannels |-> n,
      tree |-> [m(acc.tree, e.tree) EXCEPT !.nChannels = n],
      ring |-> [m(acc.ring, e.ring) EXCEPT !.nChannels = n],
      collNet |-> m(acc.collNet, e.collNet)]

RECURSIVE Reduce(_, _, _)
Reduce(data, i, acc) ==
  IF i = nRanks THEN acc ELSE Reduce(data, i + 1, ReduceStep(acc, data[i]))

\* The same copies with i descending.
RECURSIVE MoveChannels_Descending(_, _, _, _)
MoveChannels_Descending(chs, nChannels, nChannelsOrig, i) ==
  IF i >= nChannels THEN chs
  ELSE LET k == nChannels - 1 - i
       IN MoveChannels_Descending(
            [chs EXCEPT ![nChannels + k] = chs[nChannelsOrig + k]],
            nChannels, nChannelsOrig, i + 1)

\* Lines 1026-1030: the duplicated channels are moved down, one memcpy per
\* channel, i ascending.
RECURSIVE MoveChannels(_, _, _, _)
MoveChannels(chs, nChannels, nChannelsOrig, i) ==
  IF i >= nChannels THEN chs
  ELSE MoveChannels([chs EXCEPT ![nChannels + i] = chs[nChannelsOrig + i]],
                    nChannels, nChannelsOrig, i + 1)

Compact(chs, nChannels, nChannelsOrig) ==
  IF nChannels < nChannelsOrig THEN MoveChannels(chs, nChannels, nChannelsOrig, 0)
  ELSE chs

\* Lines 963-1030: the AllGather returns; nodes are counted, the graphs and
\* the channel count are reduced to the minimum over all ranks, and the
\* duplicated channels are moved down.
AllGather3Recv(r) ==
  /\ pc[r] = "AllGather3"
  /\ Gathered(allGather3Data)
  /\ LET nodes == NodeScan(allGather3Data, r, 0,
                    [nNodes |-> comm[r].nNodes, nodesFirstRank |-> <<>>,
                     nodesTreePatterns |-> <<>>, node |-> comm[r].node])
         nChannelsOrig == comm[r].nChannels
         red == Reduce(allGather3Data, 0,
                  [nChannels |-> comm[r].nChannels, tree |-> graphs[r].tree,
                   ring |-> graphs[r].ring, collNet |-> graphs[r].collNet])
     IN /\ graphs' = [graphs EXCEPT ![r] =
               [tree |-> red.tree, ring |-> red.ring, collNet |-> red.collNet]]
        /\ comm' = [comm EXCEPT ![r].nNodes = nodes.nNodes, ![r].node = nodes.node,
                                ![r].nChannels = red.nChannels,
                                ![r].channels = Compact(@, red.nChannels, nChannelsOrig)]
        /\ loc' = [loc EXCEPT ![r].nChannelsOrig = nChannelsOrig,
                              ![r].nodesFirstRank = nodes.nodesFirstRank,
                              ![r].nodesTreePatterns = nodes.nodesTreePatterns,
                              ![r].held = @ \cup {"nodesFirstRank", "nodesTreePatterns",
                                                  "allTopoRanks"}]
  /\ pc' = [pc EXCEPT ![r] = "postset"]
  /\ UNCHANGED <<hw, fineVars, ret, newcomm, heap, allGather1Data, allGather3Data,
                 allGatherFailures, intraBarrier, log, api>>

\* ------------------------------------------------------ channel connection
\* setupChannel, lines 498-514: the ring of the channel, rotated to start at
\* this rank.  ringRanks is a sequence (index 1 is element 0).
RECURSIVE Shift(_, _, _)
Shift(ringRanks, rank, shift) ==
  IF shift < nRanks /\ ringRanks[shift + 1] # rank
    THEN Shift(ringRanks, rank, shift + 1) ELSE shift

\* The ring is stored as published, not rotated.
setupChannel_Unrotated(ch, channelId, rank, ringRanks) ==
  [ch EXCEPT !.id = channelId, !.userRanks = ringRanks]

\* The rotation starts one position after the rank's own.
setupChannel_OffByOne(ch, channelId, rank, ringRanks) ==
  LET shift == Shift(ringRanks, rank, 0) + 1
  IN [ch EXCEPT !.id = channelId,
                !.userRanks = [i \in 1..nRanks |->
                                 ringRanks[((i - 1 + shift) % nRanks) + 1]]]

setupChannel(ch, channelId, rank, ringRanks) ==
  LET shift == Shift(ringRanks, rank, 0)
  IN [ch EXCEPT !.id = channelId,
                !.userRanks = [i \in 1..nRanks |->
                                 ringRanks[((i - 1 + shift) % nRanks) + 1]]]

\* The requests of lines 1072-1090 for n channels, in program order.
RingRequests(n) ==
  [k \in 1..n |-> <<"connect", "ring", k - 1>>] \o <<<<"p2pSetup", "ring", 0>>>>

\* Only the down-to-up direction of each tree is requested.
TreeRequests_OneDirection(n) ==
  [k \in 1..n |-> <<"connect", "treeDown", k - 1>>] \o <<<<"p2pSetup", "tree", 0>>>>

TreeRequests(n) ==
  [k \in 1..(2 * n) |-> <<"connect", IF k % 2 = 1 THEN "treeDown" ELSE "treeUp",
                          (k - 1) \div 2>>] \o <<<<"p2pSetup", "tree", 0>>>>

\* The buffers freed at lines 1042-1046.
AllGatherBuffers ==
  {"allTopoRanks", "nodesTreePatterns", "nodesFirstRank", "allGather1Data",
   "allGather3Data"}

\* Lines 591-594: the default buffer sizes.  The two low-latency defaults
\* are products of the factors of the protocol headers, 8 * 256 * 8 * 16
\* and 120 * 256 * 8 * 8; the other two are 1 << 22 and 1 << 20.
DEFAULT_LL_BUFFSIZE == 262144
DEFAULT_LL128_BUFFSIZE == 1966080
DEFAULT_BUFFSIZE == 4194304
DEFAULT_BUFFSIZE_ARM == 1048576

\* The value the NCCL_PARAMs of lines 595-597 have when unset.
Unset == -2

\* The protocols in the order of the arrays of lines 603-604.
NCCL_PROTO_LL == 1
NCCL_PROTO_LL128 == 2
NCCL_PROTO_SIMPLE == 3

\* The default of the simple protocol does not depend on the architecture.
computeBuffSizes_AnyArch(envs, cpuArch) ==
  LET defaults == <<DEFAULT_LL_BUFFSIZE, DEFAULT_LL128_BUFFSIZE, DEFAULT_BUFFSIZE>>
  IN [p \in 1..3 |-> IF envs[p] # Unset THEN envs[p] ELSE defaults[p]]

\* Lines 603-610: the buffer size of each protocol.
computeBuffSizes(envs, cpuArch) ==
  LET base == <<DEFAULT_LL_BUFFSIZE, DEFAULT_LL128_BUFFSIZE, DEFAULT_BUFFSIZE>>
      defaults == IF cpuArch = "ARM"
                    THEN [base EXCEPT ![NCCL_PROTO_SIMPLE] = DEFAULT_BUFFSIZE_ARM]
                    ELSE base
  IN [p \in 1..3 |-> IF envs[p] # Unset THEN envs[p] ELSE defaults[p]]

\* Lines 1032-1090: the rings array is allocated, ncclTopoPostset runs, the
\* AllGather buffers are freed, the affinity is saved and the thread pinned,
\* the buffer sizes are computed, then every channel below the reconciled
\* count is set up and its ring and tree connections are requested.  A
\* failure of computeBuffSizes returns at once; a failure of the ring
\* connection goes through affinity_restore.
ConnectChannels(r) ==
  /\ pc[r] = "postset"
  /\ LET n == comm[r].nChannels
         held == (loc[r].held \cup {"rings"}) \ AllGatherBuffers
         set == [c \in Slots |-> IF c < n
                   THEN setupChannel(comm[r].channels[c], c, r, hw.rings[c])
                   ELSE comm[r].channels[c]]
         sizes == computeBuffSizes(hw.buffSizeEnv[r], hw.cpuArch[r])
         ring == IF comm[r].nRanks = 1 THEN <<<<"p2pSetup", "ring", 0>>>>
                 ELSE RingRequests(n)
         tree == IF comm[r].nRanks = 1 THEN <<<<"p2pSetup", "tree", 0>>>>
                 ELSE TreeRequests(n)
     IN IF hw.fault[r] = "computeBuffSizes"
          THEN /\ InitFailed(r, FaultCode("computeBuffSizes"), comm[r])
               /\ loc' = [loc EXCEPT ![r].held = held, ![r].affinity = "pinned"]
        ELSE IF hw.fault[r] = "ringConnect"
          THEN /\ pc' = [pc EXCEPT ![r] = "failed"]
               /\ ret' = [ret EXCEPT ![r] = FaultCode("ringConnect")]
               /\ comm' = [comm EXCEPT ![r].channels = set, ![r].bootstrap = NULL,
                                        ![r].buffSizes = sizes, ![r].devBuffSizes = sizes]
               /\ newcomm' = [newcomm EXCEPT ![r] = NULL]
               /\ log' = [log EXCEPT ![r] =
                     Append(@ \o ring, <<"bootstrapAbort", "bootstrap", 0>>)]
               /\ loc' = [loc EXCEPT ![r].held = held, ![r].affinity = "caller"]
        ELSE /\ comm' = [comm EXCEPT ![r].channels = set, ![r].buffSizes = sizes,
                                      ![r].devBuffSizes = sizes]
             /\ log' = [log EXCEPT ![r] = @ \o ring \o tree]
             /\ loc' = [loc EXCEPT ![r].held = held, ![r].affinity = "pinned"]
             /\ pc' = [pc EXCEPT ![r] = "collNet"]
             /\ UNCHANGED <<ret, newcomm>>
  /\ UNCHANGED <<hw, fineVars, heap, graphs, allGather1Data,
                 allGather3Data, allGatherFailures, intraBarrier, api>>

\* ---------------------------------------------------- collective network
RecvRes(o) == o \in {"connected", "recvConnectFailed", "sendConnectFailed"}
SendRes(o) == o \in {"connected", "sendConnectFailed"}
RecvSupported(o) == o \in {"notMaster", "connected", "sendConnectFailed"}
SetupFail(o) == IF o \in {"notMaster", "connected"} THEN 0 ELSE 1

\* The transportResources a setup call allocates for the root peer of a slot.
RecvResource(slot) == 2 * slot + 1
SendResource(slot) == 2 * slot + 2

\* The node count is not consulted.
CollNetGate_AnyNodeCount(r) ==
  /\ hw.collNetEnable[r] = 1
  /\ hw.collNetPlugin[r]
  /\ graphs[r].collNet.nChannels # 0

\* The condition of lines 1093-1095.
CollNetGate(r) ==
  /\ comm[r].nNodes > 1
  /\ hw.collNetEnable[r] = 1
  /\ hw.collNetPlugin[r]
  /\ graphs[r].collNet.nChannels # 0

\* Lines 1096-1111: for each logical channel c, collNetSetup on the recv
\* channel (slot logicChannels+c), and on the send channel (slot c) only if
\* the first call returned 1.  Each call sets the connector's transportComm.
CollNetChannels(chs, logicChannels, o) ==
  [s \in Slots |->
     IF s < logicChannels
       THEN IF RecvSupported(o)
              THEN [chs[s] EXCEPT !.sendComm = TRUE,
                      !.send = IF SendRes(o) THEN SendResource(s) ELSE @]
              ELSE chs[s]
     ELSE IF s < 2 * logicChannels
       THEN [chs[s] EXCEPT !.recvComm = TRUE,
               !.recv = IF RecvRes(o) THEN RecvResource(s) ELSE @]
     ELSE chs[s]]

\* Lines 1092-1114 and 703-709, up to the call of the AllGather of the
\* failure flags; a rank that does not pass the gate skips the block.  A
\* failure of ncclTransportP2pSetup (line 1112) returns at once.
CollNetSetup(r) ==
  /\ pc[r] = "collNet"
  /\ IF CollNetGate(r)
       THEN LET logicChannels == comm[r].nChannels \div 2
                o == hw.collNetOutcome[r]
                collNetSetupFail == IF logicChannels > 0 THEN SetupFail(o) ELSE 0
            IN IF hw.fault[r] = "collNet"
                 THEN /\ pc' = [pc EXCEPT ![r] = "failed"]
                      /\ ret' = [ret EXCEPT ![r] = FaultCode("collNet")]
                      /\ comm' = [comm EXCEPT
                            ![r].channels = CollNetChannels(@, logicChannels, o),
                            ![r].bootstrap = NULL]
                      /\ newcomm' = [newcomm EXCEPT ![r] = NULL]
                      /\ log' = [log EXCEPT ![r] =
                            Append(@, <<"bootstrapAbort", "bootstrap", 0>>)]
                      /\ UNCHANGED <<loc, allGatherFailures>>
                 ELSE /\ comm' = [comm EXCEPT ![r].channels =
                                     CollNetChannels(@, logicChannels, o)]
                      /\ loc' = [loc EXCEPT ![r].collNetSetupFail = collNetSetupFail]
                      /\ allGatherFailures' = allGatherFailures @@ (r :> collNetSetupFail)
                      /\ log' = [log EXCEPT ![r] = Append(@, <<"p2pSetup", "collNet", 0>>)]
                      /\ pc' = [pc EXCEPT ![r] = "checkCollNet"]
                      /\ UNCHANGED <<ret, newcomm>>
       ELSE /\ pc' = [pc EXCEPT ![r] = "tune"]
            /\ UNCHANGED <<comm, loc, allGatherFailures, log, ret, newcomm>>
  /\ UNCHANGED <<hw, fineVars, heap, graphs, allGather1Data, allGather3Data,
                 intraBarrier, api>>

\* The gathered flags are not consulted: the local flag decides.
AnyFailure_Local(flags, collNetSetupFail) == collNetSetupFail

\* Lines 710-715: any non-zero flag of any rank sets the local flag.
AnyFailure(flags, collNetSetupFail) ==
  IF \E i \in Members : flags[i] # 0 THEN 1 ELSE collNetSetupFail

\* transportComm->free of a connector's resources.
transportFree(res) == <<"free", "transportResources", res>>

\* The resources are freed but the pointers are left as they were.
RECURSIVE FreeCollNet_KeepPointers(_, _, _, _)
FreeCollNet_KeepPointers(chs, nChannels, r, freed) ==
  IF r >= nChannels THEN [channels |-> chs, freed |-> freed]
  ELSE
    LET ch == chs[r]
        f1 == IF ch.send # NULL /\ ch.sendComm
                THEN Append(freed, transportFree(ch.send)) ELSE freed
        f2 == IF ch.recv # NULL /\ ch.recvComm
                THEN Append(f1, transportFree(ch.recv)) ELSE f1
    IN FreeCollNet_KeepPointers(chs, nChannels, r + 1, f2)

\* Lines 720-727: the root peer's resources of every channel below nChannels
\* are freed, send first, and both pointers are cleared.
RECURSIVE FreeCollNet(_, _, _, _)
FreeCollNet(chs, nChannels, r, freed) ==
  IF r >= nChannels THEN [channels |-> chs, freed |-> freed]
  ELSE
    LET ch == chs[r]
        f1 == IF ch.send # NULL /\ ch.sendComm
                THEN Append(freed, transportFree(ch.send)) ELSE freed
        f2 == IF ch.recv # NULL /\ ch.recvComm
                THEN Append(f1, transportFree(ch.recv)) ELSE f1
    IN FreeCollNet([chs EXCEPT ![r].send = NULL, ![r].recv = NULL],
                   nChannels, r + 1, f2)

\* Lines 709-734: the AllGather returns and the ranks agree.
checkCollNetSetup(r) ==
  /\ pc[r] = "checkCollNet"
  /\ Gathered(allGatherFailures)
  /\ LET collNetSetupFail == AnyFailure(allGatherFailures, loc[r].collNetSetupFail)
         rel == FreeCollNet(comm[r].channels, comm[r].nChannels, 0, <<>>)
     IN IF collNetSetupFail # 0
          THEN /\ comm' = [comm EXCEPT ![r].channels = rel.channels,
                                       ![r].collNetSupport = 0]
               /\ log' = [log EXCEPT ![r] = @ \o rel.freed]
          ELSE /\ comm' = [comm EXCEPT ![r].collNetSupport = 1]
               /\ UNCHANGED log
  /\ pc' = [pc EXCEPT ![r] = "tune"]
  /\ UNCHANGED <<hw, fineVars, ret, newcomm, heap, graphs, loc, allGather1Data,
                 allGather3Data, allGatherFailures, intraBarrier, api>>

\* Lines 1116-1137 and 1145-1149: the rings array is freed, then tuning,
\* intra-node setup, proxy creation, the affinity is restored, devCommSetup;
\* ncclCommInitRankSync returns success.  A failure of ncclTopoTuneModel
\* returns at once; a failure of devCommSetup comes after initTransportsRank
\* has returned.
InitDone(r) ==
  /\ pc[r] = "tune"
  /\ LET set == [comm[r] EXCEPT !.intraRank = loc[r].intraRank,
                                !.intraRanks = loc[r].intraRanks,
                                !.intraRank0 = loc[r].intraRank0]
         proxy == IF comm[r].nNodes # 0 THEN <<<<"proxy", "create", 0>>>> ELSE <<>>
         abort == <<<<"bootstrapAbort", "bootstrap", 0>>>>
     IN IF hw.fault[r] = "tune"
          THEN /\ InitFailed(r, FaultCode("tune"), comm[r])
               /\ loc' = [loc EXCEPT ![r].held = @ \ {"rings"}]
        ELSE IF hw.fault[r] = "devCommSetup"
          THEN /\ pc' = [pc EXCEPT ![r] = "failed"]
               /\ ret' = [ret EXCEPT ![r] = FaultCode("devCommSetup")]
               /\ comm' = [comm EXCEPT ![r] = [set EXCEPT !.bootstrap = NULL]]
               /\ newcomm' = [newcomm EXCEPT ![r] = NULL]
               /\ log' = [log EXCEPT ![r] = @ \o proxy \o abort]
               /\ loc' = [loc EXCEPT ![r].held = @ \ {"rings"},
                                     ![r].affinity = "caller"]
        ELSE /\ comm' = [comm EXCEPT ![r] = [set EXCEPT !.devComm = 1]]
             /\ log' = [log EXCEPT ![r] = @ \o proxy]
             /\ ret' = [ret EXCEPT ![r] = "ncclSuccess"]
             /\ loc' = [loc EXCEPT ![r].held = @ \ {"rings"},
                                   ![r].affinity = "caller"]
             /\ pc' = [pc EXCEPT ![r] = "ready"]
             /\ UNCHANGED newcomm
  /\ UNCHANGED <<hw, fineVars, heap, graphs, allGather1Data, allGather3Data,
                 allGatherFailures, intraBarrier, api>>

\* -------------------------------------------------------------- lifecycle
\* commPoison, lines 164-166.
commPoison(c) == [c EXCEPT !.rank = -1, !.cudaDev = -1, !.busId = -1, !.nRanks = -1]

\* freeChannel of one slot: an uninitialized slot is skipped; otherwise the
\* transport resources still attached to its peers are freed, send first.
freeChannel(ch) ==
  IF ch.id = -1 THEN <<>>
  ELSE (IF ch.send # NULL THEN <<transportFree(ch.send)>> ELSE <<>>)
       \o (IF ch.recv # NULL THEN <<transportFree(ch.recv)>> ELSE <<>>)
       \o <<<<"free", "channel", ch.id>>>>

RECURSIVE FreeChannels(_, _)
FreeChannels(chs, channel) ==
  IF channel = MAXCHANNELS THEN <<>>
  ELSE freeChannel(chs[channel]) \o FreeChannels(chs, channel + 1)

\* ncclCpuBarrierIn on an arrival count val: the participant that finds all
\* others arrived is last and does not count itself.
CpuBarrierIn(val, intraRanks) ==
  IF val >= intraRanks THEN [res |-> "ncclInternalError", isLast |-> FALSE, val |-> val]
  ELSE IF val + 1 = intraRanks THEN [res |-> "ncclSuccess", isLast |-> TRUE, val |-> val]
  ELSE [res |-> "ncclSuccess", isLast |-> FALSE, val |-> val + 1]

\* Every participant frees the shared allocations, last or not.
commFree_EveryRankFrees(c, val) ==
  LET bar == CpuBarrierIn(val, c.intraRanks)
      upToBarrier ==
        <<<<"free", "hostArrays", 0>>, <<"free", "peerInfo", 0>>, <<"free", "topo", 0>>>>
        \o (IF c.bootstrap # NULL THEN <<<<"bootstrapClose", "bootstrap", 0>>>> ELSE <<>>)
        \o <<<<"hipFree", "hostDevComm.channels", 0>>, <<"hipFree", "devComm", 0>>>>
        \o FreeChannels(c.channels, 0)
        \o <<<<"hipEventDestroy", "doneEvent", 0>>>>
        \o (IF c.intraRanks > 1 THEN <<<<"hipStreamDestroy", "groupStream", 0>>>> ELSE <<>>)
  IN IF bar.res # "ncclSuccess"
       THEN [res |-> bar.res, freed |-> upToBarrier, val |-> bar.val, done |-> FALSE]
       ELSE [res |-> "ncclSuccess",
             freed |-> upToBarrier
                \o <<<<"free", "intraShared", 0>>>>
                \o <<<<"free", "abortFlag", 0>>, <<"free", "p2pNet", 0>>,
                     <<"free", "comm", 0>>>>,
             val |-> bar.val, done |-> TRUE]

\* commFree, lines 269-362, on the contents c of the object: what is
\* released, in order, and the result.
commFree(c, val) ==
  LET bar == CpuBarrierIn(val, c.intraRanks)
      upToBarrier ==
        <<<<"free", "hostArrays", 0>>, <<"free", "peerInfo", 0>>, <<"free", "topo", 0>>>>
        \o (IF c.bootstrap # NULL THEN <<<<"bootstrapClose", "bootstrap", 0>>>> ELSE <<>>)
        \o <<<<"hipFree", "hostDevComm.channels", 0>>, <<"hipFree", "devComm", 0>>>>
        \o FreeChannels(c.channels, 0)
        \o <<<<"hipEventDestroy", "doneEvent", 0>>>>
        \o (IF c.intraRanks > 1 THEN <<<<"hipStreamDestroy", "groupStream", 0>>>> ELSE <<>>)
  IN IF bar.res # "ncclSuccess"
       THEN [res |-> bar.res, freed |-> upToBarrier, val |-> bar.val, done |-> FALSE]
       ELSE [res |-> "ncclSuccess",
             freed |-> upToBarrier
                \o (IF bar.isLast THEN <<<<"free", "intraShared", 0>>>> ELSE <<>>)
                \o <<<<"free", "abortFlag", 0>>, <<"free", "p2pNet", 0>>,
                     <<"free", "comm", 0>>>>,
             val |-> bar.val, done |-> TRUE]

\* The guard of line 1252 on the contents c read through the handle.
AlreadyDestroyed(c) ==
  c.rank = -1 \/ c.nRanks <= 0 \/ c.cudaDev = -1 \/ c.busId = -1

\* What reading the object through the handle can yield.  While the object
\* is allocated, its contents.  After free(comm) the read is of released
\* memory: the poisoned contents may still be there, or the block has been
\* handed out again and its identity fields rewritten.
Views(r) ==
  IF heap[r] = "live" THEN {comm[r]}
  ELSE {comm[r], [comm[r] EXCEPT !.rank = r, !.nRanks = NRanks, !.cudaDev = r,
                                 !.busId = hw.busId[r]]}

Called(r, op, res) == [api EXCEPT ![r].op = op, ![r].res = res]

\* The ncclCommDestroy calls so far, over ranks i and above, that were made
\* on a handle already passed to ncclCommDestroy.
RECURSIVE RepeatedDestroys(_)
RepeatedDestroys(i) ==
  IF i = NRanks THEN 0
  ELSE Max(0, api[i].destroys - 1) + RepeatedDestroys(i + 1)

\* ncclCommDestroy, lines 1244-1262, with commDestroy, lines 1217-1241, on
\* the handle the application holds.  The application repeats the call on a
\* handle at most MaxRepeatedDestroys times in a run.
ncclCommDestroy(r) ==
  /\ pc[r] \in {"failed", "ready", "destroyed"}
  /\ api[r].destroys = 0 \/ RepeatedDestroys(0) < MaxRepeatedDestroys
  /\ IF newcomm[r] = NULL
       THEN /\ api' = Called(r, "ncclCommDestroy", "ncclSuccess")
            /\ UNCHANGED <<pc, comm, heap, intraBarrier, log>>
       ELSE \E c \in Views(r) :
              IF AlreadyDestroyed(c)
                THEN /\ api' = [Called(r, "ncclCommDestroy", "ncclInvalidArgument")
                                  EXCEPT ![r].destroys = @ + 1]
                     /\ UNCHANGED <<pc, comm, heap, intraBarrier, log>>
                ELSE LET f == commFree(c, intraBarrier[c.intraRank0])
                     IN /\ log' = [log EXCEPT ![r] =
                              ((@ \o (IF c.cliqueManager # NULL
                                        THEN <<<<"delete", "cliqueManager", 0>>>>
                                        ELSE <<>>))
                                 \o <<<<"hipStreamSynchronize", "groupStream", 0>>,
                                      <<"proxy", "destroy", 0>>>>) \o f.freed]
                        /\ intraBarrier' = [intraBarrier EXCEPT ![c.intraRank0] = f.val]
                        /\ comm' = [comm EXCEPT ![r] = IF f.done THEN commPoison(c) ELSE c]
                        /\ heap' = [heap EXCEPT ![r] = IF f.done THEN "freed" ELSE @]
                        /\ pc' = [pc EXCEPT ![r] = "destroyed"]
                        /\ api' = [Called(r, "ncclCommDestroy", f.res)
                                     EXCEPT ![r].destroys = @ + 1]
  /\ UNCHANGED <<hw, fineVars, ret, newcomm, graphs, loc, allGather1Data, allGather3Data,
                 allGatherFailures>>

\* The abort that also destroys (the call left commented out at line 1274).
ncclCommAbort_Destroys(r) ==
  /\ pc[r] \in {"failed", "ready"}
  /\ IF newcomm[r] = NULL
       THEN UNCHANGED <<comm, heap, log, intraBarrier>>
       ELSE LET c == [comm[r] EXCEPT !.abortFlag = 1]
                f == commFree(c, intraBarrier[c.intraRank0])
            IN /\ comm' = [comm EXCEPT ![r] = commPoison(c)]
               /\ heap' = [heap EXCEPT ![r] = "freed"]
               /\ log' = [log EXCEPT ![r] = @ \o f.freed]
               /\ intraBarrier' = [intraBarrier EXCEPT ![c.intraRank0] = f.val]
  /\ api' = Called(r, "ncclCommAbort", "ncclSuccess")
  /\ UNCHANGED <<hw, fineVars, pc, ret, newcomm, graphs, loc, allGather1Data,
                 allGather3Data, allGatherFailures>>

\* The abort inverts the flag instead of storing 1.
ncclCommAbort_Toggles(r) ==
  /\ pc[r] \in {"failed", "ready"}
  /\ IF newcomm[r] = NULL
       THEN UNCHANGED comm
       ELSE comm' = [comm EXCEPT ![r].abortFlag = 1 - @]
  /\ api' = Called(r, "ncclCommAbort", "ncclSuccess")
  /\ UNCHANGED <<hw, fineVars, pc, ret, newcomm, heap, graphs, loc, allGather1Data,
                 allGather3Data, allGatherFailures, intraBarrier, log>>

\* ncclCommAbort, lines 1264-1276, on the handle the application holds; the
\* application does not call it on a handle it has destroyed.
ncclCommAbort(r) ==
  /\ pc[r] \in {"failed", "ready"}
  /\ IF newcomm[r] = NULL
       THEN UNCHANGED comm
       ELSE comm' = [comm EXCEPT ![r].abortFlag = 1]
  /\ api' = Called(r, "ncclCommAbort", "ncclSuccess")
  /\ UNCHANGED <<hw, fineVars, pc, ret, newcomm, heap, graphs, loc, allGather1Data,
                 allGather3Data, allGatherFailures, intraBarrier, log>>

\* ---------------------------------------------------- public entry points
\* NCCLCHECK after NCCLCHECK: the steps run in order up to the first one whose
\* result is not ncclSuccess; done is what has been called so far.
RECURSIVE RunSteps(_, _, _)
RunSteps(steps, i, done) ==
  IF i > Len(steps) THEN [res |-> "ncclSuccess", log |-> done]
  ELSE IF steps[i].res # "ncclSuccess"
    THEN [res |-> steps[i].res, log |-> Append(done, steps[i].entry)]
  ELSE RunSteps(steps, i + 1, Append(done, steps[i].entry))

\* A call of the runtime or of another part of the library, failing when it
\* is the call that fails in this run.
CallStep(r, what) ==
  [entry |-> <<"call", what, 1>>,
   res |-> IF hw.fault[r] = what THEN FaultCode(what) ELSE "ncclSuccess"]

\* PtrCheck and the range checks.
PtrCheck(ptr) == IF ptr = NULL THEN "ncclInvalidArgument" ELSE "ncclSuccess"

CheckStep(what, res) == [entry |-> <<"check", what, 0>>, res |-> res]

\* The static flag of line 129, per process: some thread of rank r's process
\* has run ncclInit through.
Initialized(r) ==
  \E k \in Ranks :
     /\ hw.hostHash[k] = hw.hostHash[r] /\ hw.pidHash[k] = hw.pidHash[r]
     /\ \E n \in DOMAIN log[k] :
           /\ log[k][n] = <<"call", "ncclInit", 1>>
           /\ ~(n = Len(log[k]) /\ hw.fault[k] = "ncclInit")

\* Lines 130-141: ncclInit returns at once when the process is initialized.
ncclInit(r) ==
  IF Initialized(r) THEN [entry |-> <<"call", "ncclInit", 0>>, res |-> "ncclSuccess"]
  ELSE CallStep(r, "ncclInit")

\* Lines 1171-1176: the range check of ncclCommInitRankDev.
RankCheck(nranks, myrank) ==
  IF nranks < 1 \/ myrank < 0 \/ myrank >= nranks THEN "ncclInvalidArgument"
  ELSE "ncclSuccess"

\* Lines 151-155.
GetUniqueIdSteps(r, out) ==
  <<ncclInit(r), CheckStep("out", PtrCheck(out)),
    [entry |-> <<"call", "bootstrapGetUniqueId", 1>>, res |-> "ncclSuccess"]>>

ncclGetUniqueId(r) ==
  /\ pc[r] = "start" /\ api[r].op = "none" /\ hw.extra[r].op = "ncclGetUniqueId"
  /\ LET run == RunSteps(GetUniqueIdSteps(r, hw.extra[r].out), 1, <<>>)
     IN /\ api' = [Called(r, "ncclGetUniqueId", run.res) EXCEPT
                     ![r].out = IF run.res = "ncclSuccess" THEN <<"id">> ELSE <<>>]
        /\ log' = [log EXCEPT ![r] = @ \o run.log]
  /\ UNCHANGED <<hw, fineVars, pc, ret, newcomm, comm, heap, graphs, loc, allGather1Data,
                 allGather3Data, allGatherFailures, intraBarrier>>

\* Lines 1198-1215 for a device count below one: after the checks the unique
\* id is made, the group is started and ended around a loop of no iteration.
ncclCommInitAll(r) ==
  /\ pc[r] = "start" /\ api[r].op = "none" /\ hw.extra[r].op = "ncclCommInitAll"
  /\ LET ndev == hw.extra[r].ndev
         run == RunSteps(
                  <<CheckStep("comms", PtrCheck(hw.extra[r].out)),
                    CheckStep("ndev", IF ndev < 0 THEN "ncclInvalidArgument"
                                      ELSE "ncclSuccess")>>
                  \o GetUniqueIdSteps(r, 1)
                  \o <<[entry |-> <<"call", "ncclGroupStart", 1>>, res |-> "ncclSuccess"],
                       [entry |-> <<"call", "ncclGroupEnd", 1>>, res |-> "ncclSuccess"]>>,
                  1, <<>>)
     IN /\ api' = Called(r, "ncclCommInitAll", run.res)
        /\ log' = [log EXCEPT ![r] = @ \o run.log]
  /\ UNCHANGED <<hw, fineVars, pc, ret, newcomm, comm, heap, graphs, loc, allGather1Data,
                 allGather3Data, allGatherFailures, intraBarrier>>

\* Lines 1189-1195 and 1156-1181, outside a group: ncclCommInitRank up to the
\* call of ncclCommInitRankSync.  On any failure the function returns the
\* result through the end label; *newcomm is not touched.
ncclCommInitRank(r) ==
  /\ pc[r] = "start"
  /\ hw.extra[r].op \in FirstCalls => api[r].op # "none"
  /\ LET a == hw.call[r]
         run == RunSteps(
                  <<CallStep(r, "hipGetDevice")>>
                  \o (IF hw.commIdEnv /\ a.myrank = 0
                        THEN <<CallStep(r, "bootstrapCreateRoot")>> ELSE <<>>)
                  \o <<ncclInit(r), CallStep(r, "hipFree"),
                       CheckStep("newcomm", PtrCheck(a.newcomm)),
                       CheckStep("rank", RankCheck(a.nranks, a.myrank))>>,
                  1, <<>>)
     IN /\ log' = [log EXCEPT ![r] = @ \o run.log]
        /\ IF run.res = "ncclSuccess"
             THEN /\ pc' = [pc EXCEPT ![r] = "commAlloc"]
                  /\ UNCHANGED ret
             ELSE /\ pc' = [pc EXCEPT ![r] = "rejected"]
                  /\ ret' = [ret EXCEPT ![r] = run.res]
  /\ UNCHANGED <<hw, fineVars, newcomm, comm, heap, graphs, loc, allGather1Data,
                 allGather3Data, allGatherFailures, intraBarrier, api>>

\* Lines 1292-1325: the four accessors check the communicator and the output
\* pointer, then copy one field out.
AccessorField(op, c) ==
  IF op = "ncclCommGetAsyncError" THEN c.fatalError
  ELSE IF op = "ncclCommCount" THEN c.nRanks
  ELSE IF op = "ncclCommCuDevice" THEN c.cudaDev
  ELSE c.rank

Accessor(r, op) ==
  /\ pc[r] = "ready" /\ api[r].op = "none" /\ hw.extra[r].op = op
  /\ LET c == IF hw.extra[r].comm = NULL THEN NULL ELSE newcomm[r]
         run == RunSteps(<<CheckStep("comm", PtrCheck(c)),
                           CheckStep("out", PtrCheck(hw.extra[r].out))>>, 1, <<>>)
     IN /\ api' = [Called(r, op, run.res) EXCEPT
                     ![r].out = IF run.res = "ncclSuccess"
                                  THEN <<AccessorField(op, comm[r])>> ELSE <<>>]
        /\ log' = [log EXCEPT ![r] = @ \o run.log]
  /\ UNCHANGED <<hw, fineVars, pc, ret, newcomm, comm, heap, graphs, loc, allGather1Data,
                 allGather3Data, allGatherFailures, intraBarrier>>

ncclCommGetAsyncError(r) == Accessor(r, "ncclCommGetAsyncError")
ncclCommCount(r) == Accessor(r, "ncclCommCount")
ncclCommCuDevice(r) == Accessor(r, "ncclCommCuDevice")
ncclCommUserRank(r) == Accessor(r, "ncclCommUserRank")

\* ----------------------------------------------- ncclCommSetIntra by steps
\* Lines 1116-1123: the rings array is freed, the tuning model and the
\* channels per peer are computed.
TuneModel(r) ==
  /\ pc[r] = "tune"
  /\ IF hw.fault[r] = "tune"
       THEN InitFailed(r, FaultCode("tune"), comm[r])
       ELSE /\ pc' = [pc EXCEPT ![r] = "setIntra"]
            /\ UNCHANGED <<ret, comm, newcomm, log>>
  /\ loc' = [loc EXCEPT ![r].held = @ \ {"rings"}]
  /\ UNCHANGED <<hw, fineVars, heap, graphs, allGather1Data, allGather3Data,
                 allGatherFailures, intraBarrier, api>>

\* The five pointers to the shared structures, in the order of lines 544-554
\* and 556-560.
IntraFields ==
  <<"intraBarrier", "intraParams", "intraCudaDevs", "intraCGMode", "intraCC">>

\* The address ncclCalloc returns on rank r for the k-th structure, and the
\* rank whose allocation an address belongs to.
IntraPtr(r, k) == 5 * r + k
IntraOwner(ptr) == (ptr - 1) \div 5

\* The first of the five pointers a communicator does not hold yet.
NextField(c) ==
  IF \A k \in 1..5 : c[IntraFields[k]] # NULL THEN 6
  ELSE CHOOSE k \in 1..5 :
         /\ c[IntraFields[k]] = NULL
         /\ \A j \in 1..(k - 1) : c[IntraFields[j]] # NULL

\* Lines 533-538: ncclCommSetIntra is entered with the intraRank, intraRanks
\* and communicator of intraRank0 found after AllGather1.
ncclCommSetIntra(r) ==
  /\ pc[r] = "setIntra"
  /\ comm' = [comm EXCEPT ![r].intraRank = loc[r].intraRank,
                          ![r].intraRanks = loc[r].intraRanks,
                          ![r].intraRank0 = loc[r].intraRank0]
  /\ pc' = [pc EXCEPT ![r] = IF loc[r].intraRank = 0 THEN "publish" ELSE "adopt"]
  /\ UNCHANGED <<hw, fineVars, ret, newcomm, heap, graphs, loc, allGather1Data,
                 allGather3Data, allGatherFailures, intraBarrier, log, api>>

\* Lines 539-554, one structure per step: intra-rank 0 allocates it, fills
\* it (the flag with 0x11, the capability with its own), then stores its
\* address in its communicator.  A failing ncclCalloc returns through
\* NCCLCHECK, here and at line 1125.
IntraPublish(r) ==
  /\ pc[r] = "publish"
  /\ LET k == NextField(comm[r])
     IN IF hw.intraAllocFail[r] = k
          THEN /\ InitFailed(r, "ncclSystemError", comm[r])
               /\ UNCHANGED intraMem
          ELSE /\ comm' = [comm EXCEPT ![r][IntraFields[k]] = IntraPtr(r, k)]
               /\ intraMem' = [intraMem EXCEPT
                     ![r].CGMode = IF k = 4 THEN 17 ELSE @,
                     ![r].CC = IF k = 5 THEN hw.cudaCompCap[r] ELSE @]
               /\ pc' = [pc EXCEPT ![r] = IF k = 5 THEN "launchMode" ELSE "publish"]
               /\ UNCHANGED <<ret, newcomm, log>>
  /\ UNCHANGED <<hw, initialized, initLock, caller, allConnects, sendrecvExchange,
                 heap, graphs,
                 loc, allGather1Data, allGather3Data, allGatherFailures,
                 intraBarrier, api>>

\* A participant that finds the field of comm0 unset does not wait: it
\* allocates the structure itself.
IntraAdopt_NoWait(r) ==
  /\ pc[r] = "adopt"
  /\ LET k == NextField(comm[r])
         p == comm[loc[r].intraRank0][IntraFields[k]]
     IN /\ comm' = [comm EXCEPT ![r][IntraFields[k]] =
                       IF p = NULL THEN IntraPtr(r, k) ELSE p]
        /\ pc' = [pc EXCEPT ![r] = IF k = 5 THEN "launchMode" ELSE "adopt"]
  /\ UNCHANGED <<hw, fineVars, ret, newcomm, heap, graphs, loc, allGather1Data,
                 allGather3Data, allGatherFailures, intraBarrier, log, api>>

\* Lines 516-520 and 556-560, one pointer per step: waitForNonNullPtr
\* returns once the field of comm0 is not NULL, with the value it read.
IntraAdopt(r) ==
  /\ pc[r] = "adopt"
  /\ LET k == NextField(comm[r])
         p == comm[loc[r].intraRank0][IntraFields[k]]
     IN /\ p # NULL
        /\ comm' = [comm EXCEPT ![r][IntraFields[k]] = p]
        /\ pc' = [pc EXCEPT ![r] = IF k = 5 THEN "launchMode" ELSE "adopt"]
  /\ UNCHANGED <<hw, fineVars, ret, newcomm, heap, graphs, loc, allGather1Data,
                 allGather3Data, allGatherFailures, intraBarrier, log, api>>

\* Lines 562-589: the device is entered in the shared table, the launch mode
\* is chosen, and the shared flag is lowered to 0x10 when cgMdLaunch is 0.
\* cgMdLaunch starts at 1 (line 565) and is only overwritten by the
\* attribute query, which is compiled in when CUDART_VERSION >= 9000 and made
\* in GROUP mode when the shared capability is set and equals the device's.
IntraLaunchMode(r) ==
  /\ pc[r] = "launchMode"
  /\ LET c == comm[r]
         launchMode == IF c.intraRanks = 1 \/ hw.launchModeEnv = "PARALLEL"
                         THEN "PARALLEL" ELSE "GROUP"
         CC == intraMem[IntraOwner(c.intraCC)].CC
         queried == /\ launchMode = "GROUP"
                    /\ hw.cudartVersion >= 9000
                    /\ CC # 0 /\ hw.cudaCompCap[r] = CC
         cgMdLaunch == IF queried THEN hw.cgMdLaunch[r] ELSE 1
         devs == [intraMem EXCEPT ![IntraOwner(c.intraCudaDevs)].cudaDevs =
                    [i \in DOMAIN @ \cup {c.intraRank} |->
                       IF i = c.intraRank THEN c.cudaDev ELSE @[i]]]
     IN /\ intraMem' = IF cgMdLaunch = 0
                         THEN [devs EXCEPT ![IntraOwner(c.intraCGMode)].CGMode = 16]
                         ELSE devs
        /\ comm' = [comm EXCEPT ![r].launchMode = launchMode]
        /\ log' = [log EXCEPT ![r] =
              IF launchMode = "GROUP"
                THEN Append(@, <<"call", "hipStreamCreateWithFlags", 1>>) ELSE @]
  /\ pc' = [pc EXCEPT ![r] = "proxy"]
  /\ UNCHANGED <<hw, initialized, initLock, caller, allConnects, sendrecvExchange,
                 ret, newcomm, heap, graphs,
                 loc, allGather1Data, allGather3Data, allGatherFailures,
                 intraBarrier, api>>

\* The proxy thread is created only when there is more than one node.
ProxyCreate_MultiNodeOnly(r) ==
  /\ pc[r] = "proxy"
  /\ comm' = [comm EXCEPT ![r].devComm = 1]
  /\ log' = [log EXCEPT ![r] =
        IF comm[r].nNodes > 1 THEN Append(@, <<"proxy", "create", 0>>) ELSE @]
  /\ ret' = [ret EXCEPT ![r] = "ncclSuccess"]
  /\ pc' = [pc EXCEPT ![r] = "ready"]
  /\ loc' = [loc EXCEPT ![r].affinity = "caller"]
  /\ UNCHANGED <<hw, fineVars, newcomm, heap, graphs, allGather1Data,
                 allGather3Data, allGatherFailures, intraBarrier, api>>

\* Lines 1127-1136 and 1145-1149: the proxy thread is created when nNodes is
\* not zero, the affinity is restored, devCommSetup runs and
\* ncclCommInitRankSync returns.
ProxyCreate(r) ==
  /\ pc[r] = "proxy"
  /\ LET proxy == IF comm[r].nNodes # 0 THEN <<<<"proxy", "create", 0>>>> ELSE <<>>
         abort == <<<<"bootstrapAbort", "bootstrap", 0>>>>
     IN IF hw.fault[r] = "devCommSetup"
          THEN /\ pc' = [pc EXCEPT ![r] = "failed"]
               /\ ret' = [ret EXCEPT ![r] = FaultCode("devCommSetup")]
               /\ comm' = [comm EXCEPT ![r].bootstrap = NULL]
               /\ newcomm' = [newcomm EXCEPT ![r] = NULL]
               /\ log' = [log EXCEPT ![r] = @ \o proxy \o abort]
          ELSE /\ comm' = [comm EXCEPT ![r].devComm = 1]
               /\ log' = [log EXCEPT ![r] = @ \o proxy]
               /\ ret' = [ret EXCEPT ![r] = "ncclSuccess"]
               /\ pc' = [pc EXCEPT ![r] = "ready"]
               /\ UNCHANGED newcomm
  /\ loc' = [loc EXCEPT ![r].affinity = "caller"]
  /\ UNCHANGED <<hw, fineVars, heap, graphs, allGather1Data, allGather3Data,
                 allGatherFailures, intraBarrier, api>>

\* ------------------------------------------------------- ncclInit by steps
\* The threads of one process share the statics of the library; a process is
\* named by the lowest rank among its threads.
Process(r) ==
  CHOOSE k \in Ranks :
     /\ hw.hostHash[k] = hw.hostHash[r] /\ hw.pidHash[k] = hw.pidHash[r]
     /\ \A j \in 0..(k - 1) :
           ~(hw.hostHash[j] = hw.hostHash[r] /\ hw.pidHash[j] = hw.pidHash[r])

\* The calls of ncclInit begun so far by the threads i and above.
RECURSIVE CallsOfInit(_)
CallsOfInit(i) == IF i = NRanks THEN 0 ELSE caller[i].calls + CallsOfInit(i + 1)

\* Lines 130-131: a thread enters ncclInit and reads the flag without the
\* lock.  The read races with the write of line 138: it yields the value
\* written or the value from before.  The application makes at most
\* MaxInitCalls calls in a run.
ncclInitFast(r) ==
  /\ caller[r].pc = "out"
  /\ CallsOfInit(0) < MaxInitCalls
  /\ \E seen \in {initialized[Process(r)], FALSE} :
       caller' = [caller EXCEPT
                    ![r].calls = @ + 1,
                    ![r].after = initialized[Process(r)],
                    ![r].pc = IF seen THEN "out" ELSE "lock",
                    ![r].res = IF seen THEN "ncclSuccess" ELSE "none"]
  /\ UNCHANGED <<hw, pc, ret, newcomm, comm, heap, graphs, loc, allGather1Data,
                 allGather3Data, allGatherFailures, intraBarrier, log, api,
                 initialized, initLock, intraMem, allConnects, sendrecvExchange>>

\* Line 132: pthread_mutex_lock returns once no thread holds the lock.
ncclInitLock(r) ==
  /\ caller[r].pc = "lock"
  /\ initLock[Process(r)] = -1
  /\ initLock' = [initLock EXCEPT ![Process(r)] = r]
  /\ caller' = [caller EXCEPT ![r].pc = "locked"]
  /\ UNCHANGED <<hw, pc, ret, newcomm, comm, heap, graphs, loc, allGather1Data,
                 allGather3Data, allGatherFailures, intraBarrier, log, api,
                 initialized, intraMem, allConnects, sendrecvExchange>>

\* The body without the second read of the flag.
ncclInitBody_NoRecheck(r) ==
  /\ caller[r].pc = "locked"
  /\ IF hw.fault[r] = "ncclInit"
       THEN /\ caller' = [caller EXCEPT ![r].pc = "out",
                                        ![r].res = FaultCode("ncclInit")]
            /\ UNCHANGED initialized
     ELSE /\ initialized' = [initialized EXCEPT ![Process(r)] = TRUE]
          /\ caller' = [caller EXCEPT ![r].pc = "unlock", ![r].ran = @ + 1]
  /\ UNCHANGED <<hw, pc, ret, newcomm, comm, heap, graphs, loc, allGather1Data,
                 allGather3Data, allGatherFailures, intraBarrier, log, api,
                 initLock, intraMem, allConnects, sendrecvExchange>>

\* Lines 133-139: under the lock the flag is read again; when it is clear
\* initEnv and initNet run.  A failing initNet returns its result through
\* NCCLCHECK, past the unlock of line 140.
ncclInitBody(r) ==
  /\ caller[r].pc = "locked"
  /\ IF initialized[Process(r)]
       THEN /\ caller' = [caller EXCEPT ![r].pc = "unlock"]
            /\ UNCHANGED initialized
     ELSE IF hw.fault[r] = "ncclInit"
       THEN /\ caller' = [caller EXCEPT ![r].pc = "out",
                                        ![r].res = FaultCode("ncclInit")]
            /\ UNCHANGED initialized
     ELSE /\ initialized' = [initialized EXCEPT ![Process(r)] = TRUE]
          /\ caller' = [caller EXCEPT ![r].pc = "unlock", ![r].ran = @ + 1]
  /\ UNCHANGED <<hw, pc, ret, newcomm, comm, heap, graphs, loc, allGather1Data,
                 allGather3Data, allGatherFailures, intraBarrier, log, api,
                 initLock, intraMem, allConnects, sendrecvExchange>>

\* Lines 140-141.
ncclInitUnlock(r) ==
  /\ caller[r].pc = "unlock"
  /\ initLock' = [initLock EXCEPT ![Process(r)] = -1]
  /\ caller' = [caller EXCEPT ![r].pc = "out", ![r].res = "ncclSuccess"]
  /\ UNCHANGED <<hw, pc, ret, newcomm, comm, heap, graphs, loc, allGather1Data,
                 allGather3Data, allGatherFailures, intraBarrier, log, api,
                 initialized, intraMem, allConnects, sendrecvExchange>>

\* ------------------------------------------------ collNetSetup, by steps
\* The values of ncclResult_t: a failing call checked with NCCLCHECK makes
\* the enclosing function return this value.
ResultCode(res) ==
  CASE res = "ncclSuccess" -> 0
    [] res = "ncclUnhandledCudaError" -> 1
    [] res = "ncclSystemError" -> 2
    [] res = "ncclInternalError" -> 3
    [] res = "ncclInvalidArgument" -> 4
    [] res = "ncclInvalidUsage" -> 5

\* The calls collNetSetup makes that return a result.
CollNetCalls ==
  {"canConnect", "bootstrapRecv", "setup", "ncclCalloc", "bootstrapAllGather",
   "connect", "hipMemcpy", "bootstrapSend"}

\* The call of the run that fails on rank r, on the given side.
Fails(r, side, call) == hw.cnFault[r].side = side /\ hw.cnFault[r].call = call

\* The connect descriptor transportComm->setup writes into myConnect.
Descriptor(r, type) == 2 * r + type + 1

\* What myConnect can hold when setup did not run (line 650: no initializer).
Uninit == {0, -1}

\* Lines 1098-1099, 1105-1106: the masters of logical channel c on the node of
\* rank r, read from collNetGraph.intra at c*localRanks + index; the graph
\* lists the node's ranks in the same order for every channel.
recvIndex == 0
sendIndex(r) == IF graphs[r].collNet.pattern = "TREE" THEN 0 ELSE 1
IntraAt(r, index) == hw.collNetIntra[r][(index % Len(hw.collNetIntra[r])) + 1]
recvMaster(r) == IntraAt(r, recvIndex)
sendMaster(r) == IntraAt(r, sendIndex(r))

\* Lines 669-676: the ranks of the gathered table that are masters, in rank
\* order, from rank i on.
RECURSIVE MastersFrom(_, _)
MastersFrom(board, i) ==
  IF i = nRanks THEN <<>>
  ELSE IF board[i].isMaster THEN <<i>> \o MastersFrom(board, i + 1)
  ELSE MastersFrom(board, i + 1)

\* Line 673: the position of rank r among the masters, -1 (line 621) if it is
\* none.
RankInCollNet(board, r) ==
  LET ms == MastersFrom(board, 0)
  IN IF \E k \in 1..Len(ms) : ms[k] = r
       THEN (CHOOSE k \in 1..Len(ms) : ms[k] = r) - 1
       ELSE -1

\* The table is sent as ncclCalloc left it, before the consolidation.
MasterConnects_Unconsolidated(board, nMasters) == [k \in 1..nMasters |-> 0]

\* Lines 661, 672: masterConnects, nMasters zeroed entries, the first ones
\* overwritten by the masters' descriptors in rank order.
MasterConnects(board, nMasters) ==
  LET ms == MastersFrom(board, 0)
  IN [k \in 1..nMasters |-> IF k <= Len(ms) THEN board[ms[k]].connect ELSE 0]

\* Lines 1107-1110 after a call of collNetSetup has returned v: the send side
\* is set up when the recv side returned 1; any other value sets the flag.
\* Then the next logical channel, or the end of the loop.
AfterCall(r, side, v, l) ==
  IF side = "recv" /\ v = 1
    THEN [pc |-> "cnSend", loc |-> l]
  ELSE LET l2 == IF v # 1 THEN [l EXCEPT !.collNetSetupFail = 1] ELSE l
       IN IF l.cnChannel + 1 < comm[r].nChannels \div 2
            THEN [pc |-> "cnRecv", loc |-> [l2 EXCEPT !.cnChannel = @ + 1]]
            ELSE [pc |-> "cnDone", loc |-> l2]

\* A call of collNetSetup returns v after the calls logged in entries.
Returns(r, side, v, l, entries) ==
  LET a == AfterCall(r, side, v, l)
  IN /\ pc' = [pc EXCEPT ![r] = a.pc]
     /\ loc' = [loc EXCEPT ![r] = a.loc]
     /\ log' = [log EXCEPT ![r] = @ \o entries \o <<<<"cnReturn", side, v>>>>]

\* A call made with NCCLCHECK has failed: collNetSetup returns its result.
ReturnsCode(r, side, l, entries) ==
  Returns(r, side, ResultCode(hw.cnFault[r].code), l,
          entries \o <<<<"cnFailed", side, l.cnChannel>>>>)

\* A call made with NCCLCHECKGOTO or CUDACHECKGOTO has failed: cleanup, and
\* collNetSetup returns supported, still 0.
ReturnsCleanup(r, side, l, entries) ==
  Returns(r, side, 0, l, entries \o <<<<"cnFailed", side, l.cnChannel>>>>)

\* Lines 1093-1100: the gate and the locals of the loop.
CollNetEnter(r) ==
  /\ pc[r] = "collNet"
  /\ IF CollNetGate(r)
       THEN /\ loc' = [loc EXCEPT ![r].collNetSetupFail = 0, ![r].cnChannel = 0]
            /\ pc' = [pc EXCEPT ![r] =
                        IF comm[r].nChannels \div 2 > 0 THEN "cnRecv" ELSE "cnDone"]
       ELSE /\ pc' = [pc EXCEPT ![r] = "tune"]
            /\ UNCHANGED loc
  /\ UNCHANGED <<hw, fineVars, ret, newcomm, comm, heap, graphs, allGather1Data,
                 allGather3Data, allGatherFailures, intraBarrier, log, api>>

\* Lines 1101-1107, 620-667: the recv-side call for logical channel c, up to
\* the contribution to the AllGather of the connect handles.
collNetSetupRecv(r) ==
  /\ pc[r] = "cnRecv"
  /\ LET c == loc[r].cnChannel
         slot == comm[r].nChannels \div 2 + c
         isMaster == r = recvMaster(r)
         cnRet == IF isMaster THEN hw.probe[r].recv ELSE 1
         l == [loc[r] EXCEPT !.cnRet = cnRet, !.rankInCollNet = -1,
                             !.masterConnects = <<>>]
         p2p == <<<<"p2pConnect", "collNet", c>>>>
         probed == IF isMaster THEN p2p \o <<<<"cnProbe", "recv", cnRet>>>> ELSE p2p
         selected == [comm[r].channels EXCEPT ![slot].recvComm = TRUE]
         ready == IF isMaster /\ cnRet > 0
                    THEN [selected EXCEPT ![slot].recv = RecvResource(slot)]
                    ELSE selected
     IN IF isMaster /\ Fails(r, "recv", "canConnect")
          THEN /\ ReturnsCode(r, "recv", l, p2p)
               /\ UNCHANGED <<comm, allConnects>>
        ELSE IF isMaster /\ cnRet > 0 /\ Fails(r, "recv", "setup")
          THEN /\ ReturnsCode(r, "recv", l, probed)
               /\ comm' = [comm EXCEPT ![r].channels = selected]
               /\ UNCHANGED allConnects
        ELSE IF Fails(r, "recv", "ncclCalloc")
          THEN /\ ReturnsCode(r, "recv", l, probed)
               /\ comm' = [comm EXCEPT ![r].channels = ready]
               /\ UNCHANGED allConnects
        ELSE \E myConnect \in IF isMaster /\ cnRet > 0 THEN {Descriptor(r, 1)} ELSE Uninit,
                sent \in IF Fails(r, "recv", "bootstrapAllGather") THEN BOOLEAN ELSE {TRUE} :
               /\ comm' = [comm EXCEPT ![r].channels = ready]
               /\ IF sent
                    THEN /\ allConnects' = [allConnects EXCEPT ![c] =
                               @ @@ (r :> [isMaster |-> isMaster, connect |-> myConnect])]
                         /\ pc' = [pc EXCEPT ![r] = "cnGather"]
                         /\ loc' = [loc EXCEPT ![r] = l]
                         /\ log' = [log EXCEPT ![r] = @ \o probed]
                    ELSE /\ ReturnsCleanup(r, "recv", l, probed)
                         /\ UNCHANGED allConnects
  /\ UNCHANGED <<hw, initialized, initLock, caller, intraMem, sendrecvExchange,
                 ret, newcomm, heap, graphs, allGather1Data, allGather3Data,
                 allGatherFailures, intraBarrier, api>>

\* Lines 667-700: the recv-side call once every rank has contributed.
collNetSetupGathered(r) ==
  /\ pc[r] = "cnGather"
  /\ LET c == loc[r].cnChannel
         board == allConnects[c]
         isMaster == r = recvMaster(r)
         masterPeer == sendMaster(r)
         connecting == isMaster /\ loc[r].cnRet > 0
     IN /\ Gathered(board)
        /\ IF Fails(r, "recv", "bootstrapAllGather")
             THEN /\ ReturnsCleanup(r, "recv", loc[r], <<>>)
                  /\ UNCHANGED sendrecvExchange
           ELSE LET rankInCollNet == RankInCollNet(board, r)
                    masterConnects == MasterConnects(board, comm[r].nNodes)
                    l == [loc[r] EXCEPT !.rankInCollNet = rankInCollNet,
                                        !.masterConnects = masterConnects]
                    connected == IF connecting
                                   THEN <<<<"cnConnect", "recv", rankInCollNet>>>>
                                   ELSE <<>>
                IN IF connecting /\ (Fails(r, "recv", "connect") \/ Fails(r, "recv", "hipMemcpy"))
                     THEN /\ ReturnsCleanup(r, "recv", l, <<>>)
                          /\ UNCHANGED sendrecvExchange
                   ELSE IF isMaster /\ Fails(r, "recv", "bootstrapSend")
                     THEN /\ ReturnsCleanup(r, "recv", l, connected)
                          /\ UNCHANGED sendrecvExchange
                   ELSE /\ Returns(r, "recv", IF loc[r].cnRet > 0 THEN 1 ELSE 0, l,
                                   IF isMaster
                                     THEN connected \o <<<<"cnSent", "recv", rankInCollNet>>>>
                                     ELSE connected)
                        /\ sendrecvExchange' =
                             IF isMaster
                               THEN [sendrecvExchange EXCEPT ![masterPeer] =
                                       Append(@, [from |-> r, channel |-> c,
                                                  collNetRank |-> rankInCollNet,
                                                  connect |-> masterConnects[rankInCollNet + 1]])]
                               ELSE sendrecvExchange
  /\ UNCHANGED <<hw, initialized, initLock, caller, intraMem, allConnects,
                 ret, newcomm, comm, heap, graphs, allGather1Data, allGather3Data,
                 allGatherFailures, intraBarrier, api>>

\* Lines 1109, 620-700 with type 0: the send-side call.  Its master blocks in
\* bootstrapRecv until the record of its peer has arrived.
collNetSetupSend(r) ==
  /\ pc[r] = "cnSend"
  /\ LET c == loc[r].cnChannel
         isMaster == r = sendMaster(r)
         masterPeer == recvMaster(r)
         cnRet == IF isMaster THEN hw.probe[r].send ELSE 1
         connecting == isMaster /\ cnRet > 0
         queue == sendrecvExchange[r]
         arrived == {n \in 1..Len(queue) : queue[n].from = masterPeer}
         l == [loc[r] EXCEPT !.cnRet = cnRet, !.rankInCollNet = -1,
                             !.masterConnects = <<>>]
         probed == IF isMaster THEN <<<<"cnProbe", "send", cnRet>>>> ELSE <<>>
         selected == [comm[r].channels EXCEPT ![c].sendComm = TRUE]
         ready == IF connecting
                    THEN [selected EXCEPT ![c].send = SendResource(c)]
                    ELSE selected
     IN IF isMaster /\ Fails(r, "send", "canConnect")
          THEN /\ ReturnsCode(r, "send", l, <<>>)
               /\ UNCHANGED <<comm, sendrecvExchange>>
        ELSE IF isMaster /\ Fails(r, "send", "bootstrapRecv")
          THEN /\ ReturnsCode(r, "send", l, probed)
               /\ UNCHANGED <<comm, sendrecvExchange>>
        ELSE /\ isMaster => arrived # {}
             /\ LET n == IF isMaster THEN CHOOSE k \in arrived : \A j \in arrived : k <= j
                         ELSE 0
                    rankInCollNet == IF isMaster THEN queue[n].collNetRank ELSE -1
                    received == probed \o
                                (IF isMaster THEN <<<<"cnReceived", "send", rankInCollNet>>>>
                                 ELSE <<>>)
                    masterConnects ==
                      [k \in 1..comm[r].nNodes |->
                         IF isMaster /\ k = rankInCollNet + 1 THEN queue[n].connect ELSE 0]
                    l2 == [l EXCEPT !.rankInCollNet = rankInCollNet]
                    l3 == [l2 EXCEPT !.masterConnects = masterConnects]
                IN /\ sendrecvExchange' =
                        IF isMaster
                          THEN [sendrecvExchange EXCEPT ![r] =
                                  [k \in 1..(Len(queue) - 1) |->
                                     IF k < n THEN queue[k] ELSE queue[k + 1]]]
                          ELSE sendrecvExchange
                   /\ IF connecting /\ Fails(r, "send", "setup")
                        THEN /\ ReturnsCode(r, "send", l2, received)
                             /\ comm' = [comm EXCEPT ![r].channels = selected]
                      ELSE IF Fails(r, "send", "ncclCalloc")
                        THEN /\ ReturnsCode(r, "send", l2, received)
                             /\ comm' = [comm EXCEPT ![r].channels = ready]
                      ELSE IF connecting /\ (Fails(r, "send", "connect")
                                               \/ Fails(r, "send", "hipMemcpy"))
                        THEN /\ ReturnsCleanup(r, "send", l3, received)
                             /\ comm' = [comm EXCEPT ![r].channels = ready]
                      ELSE /\ Returns(r, "send", IF cnRet > 0 THEN 1 ELSE 0, l3,
                                      IF connecting
                                        THEN received \o <<<<"cnConnect", "send", rankInCollNet>>>>
                                        ELSE received)
                           /\ comm' = [comm EXCEPT ![r].channels = ready]
  /\ UNCHANGED <<hw, initialized, initLock, caller, intraMem, allConnects,
                 ret, newcomm, heap, graphs, allGather1Data, allGather3Data,
                 allGatherFailures, intraBarrier, api>>

\* Lines 1112-1114, 703-709: ncclTransportP2pSetup on the collNet graph, then
\* the contribution to the AllGather of the failure flags.
CollNetFinish(r) ==
  /\ pc[r] = "cnDone"
  /\ IF hw.fault[r] = "collNet"
       THEN /\ InitFailed(r, FaultCode("collNet"), comm[r])
            /\ UNCHANGED allGatherFailures
       ELSE /\ allGatherFailures' = allGatherFailures @@ (r :> loc[r].collNetSetupFail)
            /\ log' = [log EXCEPT ![r] = Append(@, <<"p2pSetup", "collNet", 0>>)]
            /\ pc' = [pc EXCEPT ![r] = "checkCollNet"]
            /\ UNCHANGED <<ret, newcomm, comm>>
  /\ UNCHANGED <<hw, fineVars, heap, graphs, loc, allGather1Data, allGather3Data,
                 intraBarrier, api>>

\* ---------------------------------------------------------- specifications
Rendezvous(r) ==
  \/ commAlloc(r)
  \/ AllGather1Send(r)
  \/ AllGather1Recv(r)
  \/ TopoBuild(r)
  \/ AllGather3Recv(r)
  \/ ConnectChannels(r)
  \/ CollNetSetup(r)
  \/ checkCollNetSetup(r)
  \/ InitDone(r)

Init == InitWith(HwCore)

Next == \E r \in Ranks : Rendezvous(r) \/ ncclCommDestroy(r) \/ ncclCommAbort(r)

Spec == Init /\ [][Next]_vars

\* initTransportsRank up to the ring and tree connection, over machines that
\* differ in devices, channel counts, graph attributes and node layout.
InitRendezvous == InitWith(HwCore \cup HwDevices \cup HwChannels \cup HwGraphs \cup HwNodes)

NextRendezvous ==
  \E r \in Ranks :
     \/ commAlloc(r)
     \/ AllGather1Send(r)
     \/ AllGather1Recv(r)
     \/ TopoBuild(r)
     \/ AllGather3Recv(r)
     \/ ConnectChannels(r)

SpecRendezvous == InitRendezvous /\ [][NextRendezvous]_vars

\* Initialization alone, over the outcomes of the collective-network setup.
InitCollNet == InitWith(HwCore \cup HwCollNet)

NextCollNet == \E r \in Ranks : Rendezvous(r)

SpecCollNet == InitCollNet /\ [][NextCollNet]_vars

\* Initialization alone, over runs in which one call fails on one rank, runs
\* in which the ranks find different channel counts, runs with different
\* ring orders and runs that differ in what gates the collective network.
InitFaults == InitWith(HwCore \cup HwFaults \cup HwChannels \cup HwRings \cup HwGate)

NextFaults == \E r \in Ranks : Rendezvous(r)

SpecFaults == InitFaults /\ [][NextFaults]_vars

\* The public entry points from the call on, over the arguments of one
\* thread's calls.
InitCalls == InitAt(HwCore \cup HwCalls \cup HwExtra, "start")

NextCalls ==
  \E r \in Ranks :
     \/ ncclGetUniqueId(r)
     \/ ncclCommInitAll(r)
     \/ ncclCommInitRank(r)
     \/ Rendezvous(r)
     \/ ncclCommGetAsyncError(r)
     \/ ncclCommCount(r)
     \/ ncclCommCuDevice(r)
     \/ ncclCommUserRank(r)

SpecCalls == InitCalls /\ [][NextCalls]_vars

\* The threads of the run call ncclInit, each any number of times, in any
\* interleaving; the threads are spread over one or two processes, and
\* initNet fails for some of them.
HwInit ==
  { [HwBase EXCEPT
       !.fault = [r \in Ranks |-> IF r \in failing THEN "ncclInit" ELSE "none"],
       !.hostHash = [r \in Ranks |-> 0],
       !.pidHash = [r \in Ranks |-> IF one THEN 0 ELSE HwBase.pidHash[r]]] :
      failing \in SUBSET Ranks, one \in BOOLEAN }

InitInit == InitAt(HwInit, "start")

NextInit ==
  \E r \in Ranks :
     \/ ncclInitFast(r)
     \/ ncclInitLock(r)
     \/ ncclInitBody(r)
     \/ ncclInitUnlock(r)

SpecInit == InitInit /\ [][NextInit]_vars

\* Initialization up to the connection of rings and trees, for communicators
\* of all ranks with varied channel counts and for a communicator of rank 0
\* alone.
HwSolo ==
  { [HwBase EXCEPT !.nRanks = 1,
                   !.call[0] = [newcomm |-> 1, nranks |-> 1, myrank |-> 0],
                   !.ring[0] = [HwBase.ring[0] EXCEPT !.nChannels = n],
                   !.tree[0] = [HwBase.tree[0] EXCEPT !.nChannels = n]] :
      n \in 1..MaxRingChannels }

InitConnect == InitWith(HwCore \cup HwChannels \cup HwSolo)

SpecConnect == InitConnect /\ [][NextRendezvous]_vars

\* Initialization up to the call of AllGather3, over the placements of the
\* ranks: every assignment of hosts to ranks (one process per host), every
\* assignment of two hosts and two process hashes, and runs in which the
\* entry of one rank arrives in AllGather1 without a communicator address.
HwHosts ==
  { [HwBase EXCEPT !.hostHash = h, !.pidHash = [r \in Ranks |-> 0]] :
      h \in [Ranks -> Ranks] }

HwProcs ==
  { [HwBase EXCEPT !.hostHash = h, !.pidHash = p] :
      h \in [Ranks -> 0..1], p \in [Ranks -> 0..1] }

HwNullComm ==
  { [HwBase EXCEPT !.nullComm = [r \in Ranks |-> r = n],
                   !.pidHash = [r \in Ranks |-> IF one THEN 0 ELSE HwBase.pidHash[r]],
                   !.hostHash = [r \in Ranks |-> IF one THEN 0 ELSE HwBase.hostHash[r]]] :
      n \in Ranks, one \in BOOLEAN }

InitGroups == InitWith(HwHosts \cup HwProcs \cup HwNullComm)

NextGroups ==
  \E r \in Ranks :
     \/ commAlloc(r)
     \/ AllGather1Send(r)
     \/ AllGather1Recv(r)
     \/ TopoBuild(r)

SpecGroups == InitGroups /\ [][NextGroups]_vars

\* Initialization with ncclCommSetIntra taken step by step.  The ranks are
\* threads of one process or of two on one host; one device has another
\* compute capability or none has; one device lacks cooperative multi-device
\* launch or none does.  In two more families the build does not define
\* CUDART_VERSION, or NCCL_LAUNCH_MODE is PARALLEL.
HwProcess(one, odd, lacking) ==
  [HwBase EXCEPT
     !.hostHash = [r \in Ranks |-> 0],
     !.pidHash = [r \in Ranks |-> IF one THEN 0 ELSE HwBase.pidHash[r]],
     !.firstRank = [r \in Ranks |-> 0],
     !.cudaCompCap = [r \in Ranks |-> IF r = odd THEN 8 ELSE 9],
     !.cgMdLaunch = [r \in Ranks |-> IF r = lacking THEN 0 ELSE 1]]

HwIntra ==
  { HwProcess(TRUE, odd, lacking) :
      odd \in {-1, 0, LastRank}, lacking \in {-1, 0, LastRank} }
  \cup { HwProcess(FALSE, -1, lacking) : lacking \in {-1, 0, LastRank} }
  \cup { [HwProcess(TRUE, -1, lacking) EXCEPT !.cudartVersion = 0] :
           lacking \in {-1, 0} }
  \cup { [HwProcess(TRUE, -1, lacking) EXCEPT !.launchModeEnv = "PARALLEL"] :
           lacking \in {-1, 0} }

InitIntra == InitWith({HwBase} \cup HwIntra)

NextIntra ==
  \E r \in Ranks :
     \/ commAlloc(r)
     \/ AllGather1Send(r)
     \/ AllGather1Recv(r)
     \/ TopoBuild(r)
     \/ AllGather3Recv(r)
     \/ ConnectChannels(r)
     \/ CollNetSetup(r)
     \/ checkCollNetSetup(r)
     \/ TuneModel(r)
     \/ ncclCommSetIntra(r)
     \/ IntraPublish(r)
     \/ IntraAdopt(r)
     \/ IntraLaunchMode(r)
     \/ ProxyCreate(r)

SpecIntra == InitIntra /\ [][NextIntra]_vars

\* One process holds all ranks; initialization fails on one of them before
\* ncclCommSetIntra (ncclTopoTuneModel, line 1119) or inside it, at the
\* allocation of the k-th shared structure, or on none.  Or two nodes, the
\* first with one process of several ranks, and no failure.
HwIntraFaults ==
  { HwBase, HwProcess(TRUE, -1, -1) }
  \cup { [HwProcess(TRUE, -1, -1) EXCEPT !.fault[r] = "tune"] : r \in {0, LastRank} }
  \cup { [HwProcess(TRUE, -1, -1) EXCEPT !.intraAllocFail[0] = k] : k \in {1, 3} }

InitIntraFaults == InitWith(HwIntraFaults)

\* Those runs with the threads scheduled: as long as some thread can take a
\* step a step is taken.  A thread polling in waitForNonNullPtr yields the
\* processor and goes on once the pointer it reads is set.
FairIntra == InitIntraFaults /\ [][NextIntra]_vars /\ WF_vars(NextIntra)

\* The calls each side of collNetSetup reaches, on a master and on the others.
CallsOf(side, isMaster) ==
  IF side = "recv"
    THEN IF isMaster THEN CollNetCalls \ {"bootstrapRecv"}
         ELSE {"ncclCalloc", "bootstrapAllGather"}
  ELSE IF isMaster THEN CollNetCalls \ {"bootstrapAllGather", "bootstrapSend"}
       ELSE {"ncclCalloc"}

\* One call of collNetSetup fails on one rank, a master (rank 0, LastRank) or
\* not (rank 1), with the result of a device call or of a system call;
\* CUDACHECKGOTO always yields ncclUnhandledCudaError.
HwCollNetFaults ==
  { [HwBase EXCEPT !.cnFault[f.r] = [side |-> f.side, call |-> f.call, code |-> f.code]] :
      f \in { x \in [r : {0, 1, LastRank}, side : {"recv", "send"}, call : CollNetCalls,
                     code : {"ncclUnhandledCudaError", "ncclSystemError"}] :
                /\ x.call \in CallsOf(x.side, x.r # 1)
                /\ x.call = "hipMemcpy" => x.code = "ncclUnhandledCudaError" } }

\* The probe of one master, on one side, finds the collective network
\* unreachable.
HwProbes ==
  { [HwBase EXCEPT !.probe[r] = [recv |-> p[1], send |-> p[2]]] :
      r \in {0, LastRank}, p \in {<<0, 1>>, <<1, 0>>} }

\* The collNet graph lists the ranks of the first node in descending order,
\* so that its master is not rank 0; ncclTransportP2pSetup fails on rank 0;
\* the ranks find one channel only, hence no logical channel.
HwCollNetSteps ==
  { [HwBase EXCEPT !.collNetIntra =
        [r \in Ranks |-> IF r = LastRank THEN <<LastRank>>
                         ELSE [i \in 1..LastRank |-> LastRank - i]]],
    [HwBase EXCEPT !.fault[0] = "collNet"],
    [HwBase EXCEPT !.collNetEnable = [r \in Ranks |-> 0]] }

\* Initialization through the collective-network setup, call by call.
InitCollNetSteps == InitWith({HwBase} \cup HwCollNetFaults \cup HwProbes \cup HwCollNetSteps)

NextCollNetSteps ==
  \E r \in Ranks :
     \/ commAlloc(r)
     \/ AllGather1Send(r)
     \/ AllGather1Recv(r)
     \/ TopoBuild(r)
     \/ AllGather3Recv(r)
     \/ ConnectChannels(r)
     \/ CollNetEnter(r)
     \/ collNetSetupRecv(r)
     \/ collNetSetupGathered(r)
     \/ collNetSetupSend(r)
     \/ CollNetFinish(r)
     \/ checkCollNetSetup(r)

SpecCollNetSteps == InitCollNetSteps /\ [][NextCollNetSteps]_vars

\* The runs in which the collective network fails locally on a receive-side
\* master, or not at all: its probe reports unsupported, or its setup or
\* connect call fails.
HwCollNetLocal ==
  {HwBase} \cup HwProbes
  \cup { h \in HwCollNetFaults :
           \A r \in Ranks : \/ h.cnFault[r].call = "none"
                            \/ /\ h.cnFault[r].side = "recv"
                               /\ h.cnFault[r].call \in {"setup", "connect"} }

InitCollNetLocal == InitWith(HwCollNetLocal)

\* Those runs with the threads scheduled: as long as some rank's thread can
\* take a step, because it is not blocked in a bootstrap call, a step is
\* taken.  No thread loops, so every thread that can go on eventually does.
FairCollNetSteps ==
  InitCollNetLocal /\ [][NextCollNetSteps]_vars /\ WF_vars(NextCollNetSteps)

\* What NCCL_LL_BUFFSIZE, NCCL_LL128_BUFFSIZE and NCCL_BUFFSIZE hold: all
\* unset, one of them set (to a negative value other than the marker, zero,
\* a small value or the ARM default), or all three set.
BuffSizeEnvs ==
  { [<<Unset, Unset, Unset>> EXCEPT ![p] = v] :
      p \in 1..3, v \in {Unset, -1, 0, MaxVal, DEFAULT_BUFFSIZE_ARM} }
  \cup {<<1, MaxVal, MaxVal + 1>>}

\* The overrides and the CPU architecture vary, the same on all ranks or the
\* first rank alone on ARM; ncclTopoCpuType fails on one rank.
HwBuffSizes ==
  { [HwBase EXCEPT !.buffSizeEnv = [r \in Ranks |-> e],
                   !.cpuArch = [r \in Ranks |-> a]] :
      e \in BuffSizeEnvs, a \in {"X86", "ARM", "POWER"} }
  \cup { [HwBase EXCEPT !.cpuArch[0] = "ARM"],
         [HwBase EXCEPT !.fault[LastRank] = "computeBuffSizes"] }

\* initTransportsRank up to the ring and tree connection, over the inputs of
\* computeBuffSizes.
InitBuffSizes == InitWith(HwBuffSizes)

SpecBuffSizes == InitBuffSizes /\ [][NextRendezvous]_vars

\* ------------------------------------------------------------------ claims
\* Rank r has returned from checkCollNetSetup.
Checked(r) == r \in DOMAIN allGatherFailures /\ pc[r] \in {"tune", "ready", "destroyed"}

\* Rank r has left the reduction loop of AllGather3 and not yet run Postset.
Reconciled(r) == pc[r] = "postset"

MinOf(S) == CHOOSE m \in S : \A x \in S : m <= x

\* C1: CollectiveNet all-or-nothing.  Once every rank has returned from
\* checkCollNetSetup, all ranks hold the same collNetSupport; it is 1 only if
\* every rank passed a zero failure flag, and 0 on every rank if some rank
\* passed a non-zero flag.
C1_AllOrNothing ==
  (\A r \in Ranks : Checked(r)) =>
     /\ \A r, q \in Ranks : comm[r].collNetSupport = comm[q].collNetSupport
     /\ \A r \in Ranks : comm[r].collNetSupport \in {0, 1}
     /\ (\E r \in Ranks : comm[r].collNetSupport = 1)
           => \A q \in Ranks : loc[q].collNetSetupFail = 0
     /\ (\E q \in Ranks : loc[q].collNetSetupFail # 0)
           => \A r \in Ranks : comm[r].collNetSupport = 0

\* Every rank has returned, exactly one rank passed a failure flag, and a
\* rank that passed none has been switched off with it.
C1_Witness ==
  /\ \A r \in Ranks : Checked(r)
  /\ Cardinality({q \in Ranks : loc[q].collNetSetupFail # 0}) = 1
  /\ \E r \in Ranks : loc[r].collNetSetupFail = 0 /\ comm[r].collNetSupport = 0

GraphNames == {"tree", "ring", "collNet"}
ReducedFields == {"sameChannels", "speedIntra", "speedInter", "typeIntra", "typeInter"}

\* C2: Reconciliation convergence.  After the reduction loop every rank
\* holds, for each of the three graphs and each reduced field, the minimum
\* of that field over the values all ranks published in AllGather3.
C2_Convergence ==
  \A r \in Ranks : Reconciled(r) =>
    \A g \in GraphNames : \A f \in ReducedFields :
      graphs[r][g][f] = MinOf({allGather3Data[i][g][f] : i \in Ranks})

\* A rank holds a tree value below the one it published and a ring value
\* below the one it published, the two minima coming from different ranks.
C2_Witness ==
  \E r \in Ranks : \E i, j \in Ranks \ {r} :
    /\ Reconciled(r) /\ i # j
    /\ graphs[r].tree.speedIntra < allGather3Data[r].tree.speedIntra
    /\ graphs[r].tree.speedIntra = allGather3Data[i].tree.speedIntra
    /\ graphs[r].tree.speedInter < allGather3Data[i].tree.speedInter
    /\ graphs[r].tree.speedInter = allGather3Data[j].tree.speedInter

\* C3: After reconciliation comm->nChannels, ringGraph.nChannels and
\* treeGraph.nChannels of every rank equal the minimum over all ranks of the
\* published channel count; each rank published min(tree count, ring count)
\* of its own search; no rank ends above what it published.
C3_ChannelCount ==
  \A r \in Ranks : Reconciled(r) =>
    LET least == MinOf({allGather3Data[i].nChannels : i \in Ranks})
    IN /\ comm[r].nChannels = least
       /\ graphs[r].ring.nChannels = least
       /\ graphs[r].tree.nChannels = least
       /\ \A i \in Ranks : allGather3Data[i].nChannels =
                             Min(hw.tree[i].nChannels, hw.ring[i].nChannels)
       /\ comm[r].nChannels <= allGather3Data[r].nChannels

\* Two reconciled ranks that published different counts hold the same count.
C3_Witness ==
  \E r, q \in Ranks :
    /\ Reconciled(r) /\ Reconciled(q)
    /\ allGather3Data[r].nChannels < allGather3Data[q].nChannels
    /\ comm[q].nChannels < allGather3Data[q].nChannels
    /\ hw.tree[r].nChannels < hw.ring[r].nChannels

\* The first-ring-rank value rank i published.
FirstRankOf(i) == allGather3Data[i].topoRanks.ringRecv0

\* Rank i is the lowest rank that published its first-ring-rank value.
FirstOfNode(i) == \A j \in Ranks : j < i => FirstRankOf(j) # FirstRankOf(i)

\* The ranks that are the lowest of their node, ascending from rank i.
RECURSIVE NodeLeaders(_)
NodeLeaders(i) ==
  IF i = NRanks THEN <<>>
  ELSE (IF FirstOfNode(i) THEN <<i>> ELSE <<>>) \o NodeLeaders(i + 1)

\* C4: Node counting determinism.  From the gathered array every rank gets
\* the number of distinct first-ring-rank values as nNodes, their list in
\* order of first appearance by ascending rank, the tree pattern of the
\* first rank of each node, and two ranks get the same node index exactly
\* when they published the same value.
C4_NodeCounting ==
  \A r \in Ranks : Reconciled(r) =>
    /\ comm[r].nNodes = Cardinality({FirstRankOf(i) : i \in Ranks})
    /\ loc[r].nodesFirstRank =
          [n \in 1..Len(NodeLeaders(0)) |-> FirstRankOf(NodeLeaders(0)[n])]
    /\ loc[r].nodesTreePatterns =
          [n \in 1..Len(NodeLeaders(0)) |-> allGather3Data[NodeLeaders(0)[n]].tree.pattern]
    /\ loc[r].nodesFirstRank[comm[r].node + 1] = FirstRankOf(r)
    /\ \A q \in Ranks : Reconciled(q) =>
         /\ comm[q].nNodes = comm[r].nNodes
         /\ loc[q].nodesFirstRank = loc[r].nodesFirstRank
         /\ (comm[q].node = comm[r].node) <=> (FirstRankOf(q) = FirstRankOf(r))

\* Two nodes, the first-seen value not the smallest, and two ranks of one
\* node that are not neighbours in rank order.
C4_Witness ==
  \E r, q \in Ranks :
    /\ Reconciled(r) /\ Reconciled(q) /\ q > r + 1
    /\ comm[r].nNodes = 2
    /\ comm[r].node = 0 /\ comm[q].node = 0
    /\ loc[r].nodesFirstRank[1] > loc[r].nodesFirstRank[2]

\* Rank i's published (host hash, bus id) equals that of another rank.
SharesDevice(i) ==
  \E j \in Ranks \ {i} :
     /\ allGather1Data[j].peerInfo.hostHash = allGather1Data[i].peerInfo.hostHash
     /\ allGather1Data[j].peerInfo.busId = allGather1Data[i].peerInfo.busId

\* Rank k has the gathered array of AllGather1 and has run the check on it.
PastAllGather1(k) == pc[k] \notin {"commAlloc", "bootstrapInit", "AllGather1"}

\* C5 as stated: if any two distinct ranks published the same (host hash,
\* bus id), initialization has failed with InvalidUsage on every rank that
\* received the gathered array, ranks other than the two included.
C5_EveryRankRejects ==
  (Gathered(allGather1Data) /\ \E i \in Ranks : SharesDevice(i)) =>
     \A k \in Ranks : PastAllGather1(k) => ret[k] = "ncclInvalidUsage"

\* C5 as amended: initialization fails with InvalidUsage on exactly the
\* ranks whose own (host hash, bus id) another rank published too; a rank
\* whose own pair is unique is not failed by the check, whatever the others
\* published.
C5_OwnDeviceRejects ==
  \A k \in Ranks : PastAllGather1(k) =>
     (ret[k] = "ncclInvalidUsage" <=> SharesDevice(k))

\* Ranks i < j share a device and both have failed, while a third rank with
\* a device of its own went on to the topology build.
C5_Witness ==
  \E i, j, k \in Ranks :
    /\ i < j /\ k \notin {i, j}
    /\ Gathered(allGather1Data)
    /\ allGather1Data[i].peerInfo.hostHash = allGather1Data[j].peerInfo.hostHash
    /\ allGather1Data[i].peerInfo.busId = allGather1Data[j].peerInfo.busId
    /\ ret[i] = "ncclInvalidUsage" /\ ret[j] = "ncclInvalidUsage"
    /\ ~SharesDevice(k) /\ pc[k] = "AllGather3"

\* The entries of a log of the given kinds.
Logged(l, kinds) == {n \in 1..Len(l) : l[n][1] \in kinds}

\* C6: a rank that detects a duplicate device returns InvalidUsage before
\* the topology build, before AllGather3 and before any transport connect or
\* setup request: it has done none of them.
C6_RejectedBeforeTopology ==
  \A r \in Ranks :
    (PastAllGather1(r) /\ DuplicateGPU(allGather1Data, r)) =>
       /\ ret[r] = "ncclInvalidUsage"
       /\ pc[r] = "failed"
       /\ Logged(log[r], {"topo", "allgather", "connect", "p2pSetup"}) = {}
       /\ comm[r].topo = NULL
       /\ r \notin DOMAIN allGather3Data

\* A rank has been rejected while another rank has built its topology.
C6_Witness ==
  \E r, q \in Ranks :
    /\ ret[r] = "ncclInvalidUsage" /\ DuplicateGPU(allGather1Data, r)
    /\ Logged(log[q], {"topo"}) # {}

\* The channel array as ncclTopoPreset left it on rank r.
Preset(r) ==
  ncclTopoPreset([c \in Slots |-> [ZeroChannel EXCEPT !.id = -1]], loc[r].nChannelsOrig)

\* C7: Channel count monotonic shrink.  When reconciliation reduces the
\* count from C0 to C1 < C0, after compaction slots 0..C1-1 are unchanged and
\* slot C1+i holds what slot C0+i held, for every i < C1, also when the two
\* ranges overlap.
C7_Compaction ==
  \A r \in Ranks :
    (Reconciled(r) /\ comm[r].nChannels < loc[r].nChannelsOrig) =>
       \A i \in 0..(comm[r].nChannels - 1) :
          /\ comm[r].channels[i] = Preset(r)[i]
          /\ comm[r].channels[comm[r].nChannels + i] = Preset(r)[loc[r].nChannelsOrig + i]

\* A reduction whose source and destination ranges overlap: C1 < C0 < 2*C1.
C7_Witness ==
  \E r \in Ranks :
    /\ Reconciled(r)
    /\ comm[r].nChannels < loc[r].nChannelsOrig
    /\ loc[r].nChannelsOrig < 2 * comm[r].nChannels

\* The resources the setup calls attached to the root peer on rank r.
Attached(r) ==
  LET chs == CollNetChannels([s \in Slots |-> ZeroChannel], comm[r].nChannels \div 2,
                             hw.collNetOutcome[r])
  IN ({chs[s].send : s \in Slots} \cup {chs[s].recv : s \in Slots}) \ {NULL}

\* How often a resource was freed on rank r.
TimesFreed(r, res) == Cardinality({n \in 1..Len(log[r]) : log[r][n] = transportFree(res)})

C9_SecondDestroyRejected ==
  [][\A r \in Ranks :
        (heap[r] = "freed" /\ api'[r].destroys = api[r].destroys + 1) =>
           /\ api'[r].res = "ncclInvalidArgument"
           /\ log'[r] = log[r]]_vars

\* The step is a call of ncclCommAbort by rank r: the last call recorded for
\* r is an abort and something of rank r changed (after initialization only
\* r's own lifecycle calls change rank r's state).
AbortStep(r) ==
  /\ api'[r].op = "ncclCommAbort"
  /\ <<comm[r], heap[r], log[r], api[r], newcomm[r], pc[r], ret[r]>>'
       # <<comm[r], heap[r], log[r], api[r], newcomm[r], pc[r], ret[r]>>

\* C10: ncclCommAbort on a live communicator only sets the abort flag to 1
\* and returns success: nothing is released, the object is neither poisoned
\* nor freed, every other field is unchanged; on a NULL handle it returns
\* success and changes nothing.
C10_AbortOnlySetsFlag ==
  [][\A r \in Ranks : AbortStep(r) =>
        /\ api'[r].res = "ncclSuccess"
        /\ comm'[r] = IF newcomm[r] = NULL THEN comm[r]
                      ELSE [comm[r] EXCEPT !.abortFlag = 1]
        /\ UNCHANGED <<heap, log, newcomm, pc, intraBarrier, ret>>]_vars

\* A live communicator has been aborted: its flag is 1, it is still
\* allocated with its identity, and nothing was released.
C10_Witness ==
  \E r \in Ranks :
    /\ api[r].op = "ncclCommAbort" /\ api[r].res = "ncclSuccess"
    /\ newcomm[r] # NULL /\ heap[r] = "live"
    /\ comm[r].abortFlag = 1 /\ comm[r].rank = r /\ comm[r].bootstrap # NULL
    /\ Logged(log[r], {"free", "hipFree", "bootstrapClose"}) = {}

\* The kinds of record entries that release something.
ReleaseKinds ==
  {"delete", "free", "hipFree", "bootstrapClose", "hipEventDestroy", "hipStreamDestroy"}

\* The positions in a record l of the entries <<kind, what, _>>.
At(l, kind, what) == {n \in 1..Len(l) : l[n][1] = kind /\ l[n][2] = what}

\* Every position of A is before every position of B.
Before(A, B) == \A a \in A : \A b \in B : a < b

\* What a step added to rank r's record.
Added(r) == SubSeq(log'[r], Len(log[r]) + 1, Len(log'[r]))

\* C11: Destroy ordering.  In the ncclCommDestroy that destroys a
\* communicator no release precedes the device-stream synchronization, and
\* the releases are in the order transport resources (the channels),
\* bootstrap handle, device-side mirrored structures, and last the
\* communicator object.
C11_DestroyOrder ==
  [][\A r \in Ranks :
       (api[r].destroys = 0 /\ api'[r].destroys = 1 /\ heap'[r] = "freed") =>
          /\ Before(At(Added(r), "hipStreamSynchronize", "groupStream"),
                    Logged(Added(r), ReleaseKinds))
          /\ Before(At(Added(r), "free", "transportResources")
                      \cup At(Added(r), "free", "channel"),
                    At(Added(r), "bootstrapClose", "bootstrap"))
          /\ Before(At(Added(r), "bootstrapClose", "bootstrap"),
                    At(Added(r), "hipFree", "hostDevComm.channels")
                      \cup At(Added(r), "hipFree", "devComm"))
          /\ Before(Logged(Added(r), ReleaseKinds) \ At(Added(r), "free", "comm"),
                    At(Added(r), "free", "comm"))
          /\ At(Added(r), "free", "comm") # {}]_vars

\* C12: Any failure inside the rendezvous aborts initialization for the local
\* rank: ncclCommInitRankSync returns the failing code, the caller's handle
\* is NULL, the communicator's bootstrap handle is released if it had been
\* opened, and nothing else is touched on the way out.
C12_FailureReported ==
  \A r \in Ranks : pc[r] \in {"failed", "crashed"} =>
     /\ pc[r] = "failed"
     /\ ret[r] \notin {"none", "ncclSuccess"}
     /\ newcomm[r] = NULL
     /\ comm[r].bootstrap = NULL
     /\ At(log[r], "bootstrapAbort", "wild") = {}

\* C13: On every failing exit of initialization everything the rank has
\* allocated so far has been freed: the communicator object, the AllGather
\* buffers, the node tables and the rings array.
C13_NothingLeaked ==
  \A r \in Ranks : pc[r] = "failed" =>
     /\ heap[r] # "live"
     /\ loc[r].held = {}

\* C14: Once the thread has been pinned, the caller's affinity is back in
\* place whenever initialization has returned, with success or with failure.
C14_AffinityRestored ==
  \A r \in Ranks : pc[r] \in {"failed", "ready"} => loc[r].affinity = "caller"

\* C15: The AllGather rounds serialize the ranks.  A rank that has built its
\* topology has seen AllGather1 complete for all ranks; a rank that has
\* issued a connection request (ring, tree or collective network) has seen
\* AllGather3 complete for all ranks and requests connections only on
\* channels below the reconciled count, the minimum of the published ones.
C15_Serialized ==
  \A r \in Ranks :
    /\ (comm[r].topo # NULL \/ At(log[r], "topo", "build") # {})
          => Gathered(allGather1Data)
    /\ Logged(log[r], {"connect", "p2pSetup"}) # {} =>
          /\ Gathered(allGather3Data)
          /\ \A n \in Logged(log[r], {"connect"}) :
                log[r][n][3] < MinOf({allGather3Data[k].nChannels : k \in Ranks})

\* One rank has requested its ring and tree connections while another has
\* not yet returned from AllGather3, and the requesting rank had published
\* more channels than the reconciled count.
C15_Witness ==
  \E r, k \in Ranks :
    /\ Logged(log[r], {"connect"}) # {} /\ At(log[r], "p2pSetup", "tree") # {}
    /\ pc[k] = "AllGather3"
    /\ Gathered(allGather3Data)
    /\ allGather3Data[r].nChannels > MinOf({allGather3Data[j].nChannels : j \in Ranks})

\* The arguments of rank r's ncclCommInitRank are in range.
RankInRange(r) ==
  hw.call[r].nranks >= 1 /\ 0 <= hw.call[r].myrank /\ hw.call[r].myrank < hw.call[r].nranks

\* C16: Communicator allocation validates its arguments.  For every device
\* count and rank with deviceCount < 1 or rank outside 0..deviceCount-1,
\* commAlloc returns InvalidArgument, and so does the ncclCommInitRank that
\* was called with them; no communicator is allocated and the caller's
\* handle is not written with a communicator.
C16_ArgumentsValidated ==
  \A r \in Ranks : ~RankInRange(r) =>
     /\ commAllocArgs(hw.call[r].nranks, hw.call[r].myrank) = "ncclInvalidArgument"
     /\ pc[r] \in {"start", "rejected"}
     /\ pc[r] = "rejected" => ret[r] = "ncclInvalidArgument"
     /\ heap[r] = "none"
     /\ newcomm[r] = hw.callerHandle[r]

\* The entries of a record that stand for work done: calls of the runtime
\* and of the library, other than an ncclInit that found the process
\* initialized.
Work(l) == {n \in Logged(l, {"call"}) : l[n] # <<"call", "ncclInit", 0>>}

\* The checks a step made of the arguments of the entry point called (the
\* ncclGetUniqueId inside ncclCommInitAll checks a pointer to a local).
ArgChecks(r) ==
  {n \in Logged(Added(r), {"check"}) :
     api'[r].op = "ncclCommInitAll" /\ api[r].op = "none"
       => Added(r)[n][2] \in {"comms", "ndev"}}

\* The step is an entry point called with an argument that fails a check.
CheckFailed(r) ==
  /\ \/ /\ pc[r] = "start" /\ pc'[r] # "start"
        /\ \/ PtrCheck(hw.call[r].newcomm) # "ncclSuccess"
           \/ ~RankInRange(r)
     \/ /\ api[r].op = "none" /\ api'[r].op = "ncclGetUniqueId"
        /\ hw.extra[r].out = NULL
     \/ /\ api[r].op = "none" /\ api'[r].op = "ncclCommInitAll"
        /\ (hw.extra[r].out = NULL \/ hw.extra[r].ndev < 0)
     \/ /\ api[r].op = "none" /\ api'[r].op \in Accessors
        /\ (hw.extra[r].comm = NULL \/ hw.extra[r].out = NULL)

\* C17: Every public entry point checks its pointer arguments for null and
\* its rank and device-count arguments for range before any other work:
\* in the step of an entry point no call of the runtime or of the library
\* precedes a check, and a call whose arguments fail a check returns
\* ncclInvalidArgument.
C17_ChecksFirst ==
  [][\A r \in Ranks :
       /\ Before(ArgChecks(r), Work(Added(r)))
       /\ CheckFailed(r) =>
            IF pc[r] = "start" /\ pc'[r] # "start"
              THEN ret'[r] = "ncclInvalidArgument"
              ELSE api'[r].res = "ncclInvalidArgument"]_vars

\* The participants of the intra-process group led by rank g.
IntraGroup(g) == {k \in Ranks : loc[k].intraRank0 = g}

\* C18: Last rank frees the shared resources.  When the participants of one
\* process each destroy their communicator once, in any order, a
\* participant's teardown finds the shared intra-node allocations not yet
\* freed by anyone, frees them at most once, and frees them exactly when
\* every other participant has already torn down.
C18_LastFreesShared ==
  [][(\A k \in Ranks : api'[k].destroys <= 1) =>
       \A r \in Ranks : (heap[r] = "live" /\ heap'[r] = "freed") =>
          /\ \A k \in IntraGroup(loc[r].intraRank0) :
                At(log[k], "free", "intraShared") = {}
          /\ Cardinality(At(Added(r), "free", "intraShared")) <= 1
          /\ At(Added(r), "free", "intraShared") # {}
                <=> \A k \in IntraGroup(loc[r].intraRank0) \ {r} : heap[k] = "freed"]_vars

\* Two participants of one process have both torn down, each once: the one
\* that came second freed the shared allocations, the other did not.
C18_Witness ==
  \E r, k \in Ranks :
    /\ r # k /\ loc[r].intraRank0 = loc[k].intraRank0
    /\ heap[r] = "freed" /\ heap[k] = "freed"
    /\ api[r].destroys = 1 /\ api[k].destroys = 1
    /\ Cardinality(At(log[r], "free", "intraShared")) = 1
    /\ At(log[k], "free", "intraShared") = {}

\* The position (from 0) of rank r in a published ring order.
PositionIn(ringRanks, r) == (CHOOSE i \in 1..NRanks : ringRanks[i] = r) - 1

\* C19: Ring rotation.  Once setupChannel has run on a rank r, every channel
\* below the channel count holds the published ring order of that channel
\* rotated to start at r: userRanks[0] = r and userRanks[i] =
\* ringRanks[(p + i) mod nranks] with p the position of r in the order.
C19_RingRotation ==
  \A r \in Ranks : pc[r] \in {"collNet", "checkCollNet", "tune", "ready"} =>
    \A c \in 0..(comm[r].nChannels - 1) :
       LET ringRanks == hw.rings[c]
           p == PositionIn(ringRanks, r)
           userRanks == comm[r].channels[c].userRanks
       IN /\ Len(userRanks) = NRanks
          /\ userRanks[1] = r
          /\ \A i \in 0..(NRanks - 1) :
                userRanks[i + 1] = ringRanks[((p + i) % NRanks) + 1]

\* A rank that is neither first in the published order of channel 0 nor at
\* the position of its own number has stored the ring starting at itself.
C19_Witness ==
  \E r \in Ranks :
    /\ pc[r] = "ready" /\ comm[r].nChannels >= 2
    /\ PositionIn(hw.rings[0], r) \notin {0, r}
    /\ comm[r].channels[0].userRanks[1] = r
    /\ comm[r].channels[1].userRanks[1] = r
    /\ comm[r].channels[0].userRanks # comm[r].channels[1].userRanks

\* Rank r has run the collective-network sub-protocol or part of it: a
\* connector of a root peer was set up, the setup was submitted, or the
\* rank's flag went into the agreement step.
CollNetRan(r) ==
  \/ \E c \in Slots : \/ comm[r].channels[c].sendComm \/ comm[r].channels[c].recvComm
                       \/ comm[r].channels[c].send # NULL
                       \/ comm[r].channels[c].recv # NULL
  \/ At(log[r], "p2pSetup", "collNet") # {}
  \/ Logged(log[r], {"free"}) # {}
  \/ r \in DOMAIN allGatherFailures
  \/ pc[r] = "checkCollNet"

\* C20: CollectiveNet gating.  The sub-protocol and its agreement step run
\* only on a communicator of more than one node with the feature enabled and
\* a collective-network graph of at least one channel; on every other
\* communicator no collNetSetup call is made and collNetSupport is 0 from
\* allocation to the end of initialization.
C20_CollNetGated ==
  \A r \in Ranks : pc[r] \in {"collNet", "checkCollNet", "tune", "ready"} =>
    /\ CollNetRan(r) =>
          /\ comm[r].nNodes > 1
          /\ hw.collNetEnable[r] = 1
          /\ graphs[r].collNet.nChannels >= 1
    /\ ~CollNetRan(r) => comm[r].collNetSupport = 0

\* A single-node communicator with the feature enabled, the plugin present
\* and a graph with channels has finished initialization on every rank
\* without the sub-protocol, collNetSupport still 0.
C20_Witness ==
  \A r \in Ranks :
    /\ pc[r] = "ready" /\ comm[r].nNodes = 1
    /\ hw.collNetEnable[r] = 1 /\ hw.collNetPlugin[r]
    /\ graphs[r].collNet.nChannels >= 1
    /\ ~CollNetRan(r) /\ comm[r].collNetSupport = 0

\* ----------------------------------------------------------------- C21
\* The times the threads i and above of process p took the body of ncclInit
\* to its end.
RECURSIVE BodyRuns(_, _)
BodyRuns(p, i) ==
  IF i = NRanks THEN 0
  ELSE (IF Process(i) = p THEN caller[i].ran ELSE 0) + BodyRuns(p, i + 1)

\* C21: ncclInit is a guarded one-time initializer.  Under any interleaving
\* of the calls of a process's threads the body (initEnv, initNet) completes
\* at most once per process, the flag is set exactly when it has, and a call
\* that began after that completion has returned success whenever it has
\* returned, without running the body.
C21_InitOnce ==
  \A r \in Ranks :
     /\ BodyRuns(Process(r), 0) <= 1
     /\ initialized[Process(r)] <=> BodyRuns(Process(r), 0) = 1
     /\ caller[r].after /\ caller[r].pc = "out" => caller[r].res = "ncclSuccess"
     /\ caller[r].after /\ caller[r].ran = 1 => caller[r].calls > 1

\* Two threads of one process have called: one ran the body, the other
\* called after that, found the lock path or the fast path, and returned
\* success without running it.
C21_Witness ==
  \E r, k \in Ranks :
     /\ r # k /\ Process(r) = Process(k)
     /\ caller[r].ran = 1
     /\ caller[k].after /\ caller[k].pc = "out" /\ caller[k].ran = 0
     /\ caller[k].res = "ncclSuccess"

\* ----------------------------------------------------------------- C22
\* Rank r is past the handshake of ncclCommSetIntra.
PastHandshake(r) == pc[r] \in {"launchMode", "proxy", "ready"}

\* C22: intra-rank 0 allocates the shared structures and publishes each
\* address once; every other participant gets past the handshake only with
\* five non-null pointers, and each pointer a participant holds is the one
\* intra-rank 0 published for that structure, under any interleaving.
C22_PublishAdopt ==
  /\ [](\A r \in Ranks : \A k \in 1..5 :
          LET r0 == loc[r].intraRank0
              p == comm[r][IntraFields[k]]
          IN /\ PastHandshake(r) => p # NULL
             /\ p # NULL => /\ r0 \in Ranks /\ loc[r0].intraRank = 0
                            /\ p = comm[r0][IntraFields[k]]
                            /\ IntraOwner(p) = r0)
  /\ [][\A r \in Ranks : \A k \in 1..5 :
          comm[r][IntraFields[k]] # NULL =>
             comm'[r][IntraFields[k]] = comm[r][IntraFields[k]]]_vars

\* A participant other than intra-rank 0 has finished initialization holding
\* the five addresses intra-rank 0 published, and a third one is still
\* waiting for them.
C22_Witness ==
  \E r, w \in Ranks :
     /\ loc[r].intraRank > 0 /\ pc[r] = "ready"
     /\ \A k \in 1..5 : comm[r][IntraFields[k]] = IntraPtr(loc[r].intraRank0, k)
     /\ w # r /\ loc[w].intraRank > 0 /\ pc[w] = "adopt"
     /\ loc[w].intraRank0 = loc[r].intraRank0

\* ----------------------------------------------------------------- C23
\* The ranks of the process whose shared structures rank r0 allocated.
IntraMembers(r0) == {g \in Ranks : loc[g].intraRank0 = r0 /\ loc[g].intraRank >= 0}

\* C23: once every participant of a process has run ncclCommSetIntra the
\* shared launch-mode flag is 0x11 only if every participant's compute
\* capability equals the common one and every device reports cooperative
\* multi-device launch; if any lacks the support or differs in capability
\* the flag is 0x10.
C23_FlagReflectsSupport ==
  \A r0 \in Ranks :
     (/\ loc[r0].intraRank = 0
      /\ \A g \in IntraMembers(r0) : pc[g] \in {"proxy", "ready"})
     => LET capable == \A g \in IntraMembers(r0) :
                          /\ hw.cudaCompCap[g] = intraMem[r0].CC
                          /\ hw.cgMdLaunch[g] = 1
        IN intraMem[r0].CGMode = (IF capable THEN 17 ELSE 16)

\* ----------------------------------------------------------------- C24
\* The indices of the gathered entries with the (hostHash, pidHash) of r's.
SameProcess(r) ==
  {i \in Ranks :
     /\ allGather1Data[i].peerInfo.hostHash = allGather1Data[r].peerInfo.hostHash
     /\ allGather1Data[i].peerInfo.pidHash = allGather1Data[r].peerInfo.pidHash}

\* Rank r has the results of the scan that follows AllGather1.
Scanned(r) == pc[r] \in {"topo", "AllGather3"}

\* C24: after AllGather1, on every rank r that goes on, intraRanks is the
\* number of gathered entries with r's (hostHash, pidHash), intraRank the
\* number of those with an index below r, intraRank0 the least such index.
C24_IntraResults ==
  \A r \in Ranks :
     Scanned(r) =>
        /\ loc[r].intraRanks = Cardinality(SameProcess(r))
        /\ loc[r].intraRank = Cardinality({i \in SameProcess(r) : i < r})
        /\ loc[r].intraRank0 \in SameProcess(r)
        /\ \A i \in SameProcess(r) : loc[r].intraRank0 <= i

\* A rank has scanned an array in which it is the second of its process, its
\* process does not start at rank 0, and another host has an entry with the
\* same process hash.
C24_Witness ==
  \E r \in Ranks :
     /\ Scanned(r)
     /\ loc[r].intraRank = 1 /\ loc[r].intraRank0 > 0
     /\ \E i \in Ranks :
           /\ hw.pidHash[i] = hw.pidHash[r] /\ hw.hostHash[i] # hw.hostHash[r]

\* ----------------------------------------------------------------- C25
\* The host hashes in the gathered array.
Hosts == {allGather1Data[i].peerInfo.hostHash : i \in Ranks}

Unresolved(r) ==
  LET st == IntraRanks(allGather1Data, r)
  IN \/ st.intraRank = -1 \/ st.intraRank0 = -1
     \/ allGather1Data[st.intraRank0].comm = NULL

\* C26: a rank whose intra-process grouping cannot be resolved (no intraRank
\* or intraRank0 found, or the entry of intraRank0 without a communicator
\* address) and whose device is not a duplicate returns ncclInternalError
\* from initTransportsRank before it builds the topology and before it
\* calls AllGather3.
C26_UnresolvedRejected ==
  \A r \in Ranks :
     (/\ Gathered(allGather1Data) /\ pc[r] \notin {"commAlloc", "bootstrapInit", "AllGather1"}
      /\ Unresolved(r) /\ ~DuplicateGPU(allGather1Data, r))
     => /\ pc[r] = "failed" /\ ret[r] = "ncclInternalError"
        /\ comm[r].topo = NULL
        /\ Logged(log[r], {"topo"}) = {}
        /\ r \notin DOMAIN allGather3Data

\* A rank has returned ncclInternalError because the entry of its intraRank0,
\* another rank, carried no communicator address, while a rank of another
\* process has gone on to AllGather3.
C26_Witness ==
  \E r, k \in Ranks :
     /\ pc[r] = "failed" /\ ret[r] = "ncclInternalError"
     /\ IntraRanks(allGather1Data, r).intraRank0 # r
     /\ pc[k] = "AllGather3"

\* ----------------------------------------------------------------- C29
\* The positions in rank r's log of the connection requests of one kind for
\* channel c, and of all entries of one kind.
Requests(r, what, c) == {k \in DOMAIN log[r] : log[r][k] = <<"connect", what, c>>}
Entries(r, kind) == {k \in DOMAIN log[r] : log[r][k][1] = kind}
RingSetup(r) == {k \in DOMAIN log[r] : log[r][k] = <<"p2pSetup", "ring", 0>>}

\* C29: on a rank that has connected its channels, every channel below the
\* reconciled count is initialized; with more than one rank each of them has
\* exactly one ring request and two tree requests (down to up, up to down),
\* no other channel has any, and every ring request and the ring setup come
\* before any tree request; with a single rank no connection is requested.
C29_ConnectRequests ==
  \A r \in Ranks :
     pc[r] = "collNet" =>
        /\ \A c \in Slots : c < comm[r].nChannels =>
              /\ comm[r].channels[c].id = c
              /\ Len(comm[r].channels[c].userRanks) = comm[r].nRanks
        /\ Cardinality(RingSetup(r)) = 1
        /\ IF comm[r].nRanks = 1 THEN Entries(r, "connect") = {}
           ELSE /\ \A c \in Slots :
                     LET want == IF c < comm[r].nChannels THEN 1 ELSE 0
                     IN /\ Cardinality(Requests(r, "ring", c)) = want
                        /\ Cardinality(Requests(r, "treeDown", c)) = want
                        /\ Cardinality(Requests(r, "treeUp", c)) = want
                        /\ \A d \in Requests(r, "treeDown", c) :
                           \A u \in Requests(r, "treeUp", c) : d < u
                /\ \A c, t \in Slots :
                     \A k \in Requests(r, "ring", c) \cup RingSetup(r) :
                     \A j \in Requests(r, "treeDown", t) \cup Requests(r, "treeUp", t) :
                        k < j

\* A rank of a communicator of several ranks has connected its channels, the
\* reconciled count being at least two and below the count its own ring
\* search found.
C29_Witness ==
  \E r \in Ranks :
     /\ pc[r] = "collNet" /\ comm[r].nRanks > 1
     /\ comm[r].nChannels >= 2 /\ comm[r].nChannels < hw.ring[r].nChannels

\* The rank of a communicator of one rank has set up its channels.
C29_SoloReached ==
  \E r \in Ranks : pc[r] = "collNet" /\ comm[r].nRanks = 1 /\ comm[r].nChannels >= 2

\* ----------------------------------------------------------------- C30
\* The proxy threads rank r has created.
Proxies(r) == {k \in DOMAIN log[r] : log[r][k] = <<"proxy", "create", 0>>}

\* C30 as stated: the proxy thread is created at the end of initialization
\* exactly when the communicator spans more than one node; a single-node
\* communicator finishes initialization without it.
C30_ProxyOnlyMultiNode ==
  \A r \in Ranks :
     pc[r] = "ready" => (Proxies(r) # {} <=> comm[r].nNodes > 1)

\* C30, amended: the proxy thread is created once at the end of
\* initialization whenever the node count is not zero; the node count of an
\* initialized communicator is at least one, so every communicator that
\* finishes initialization has created it, a single-node one included, and
\* no rank creates it before ncclCommSetIntra has returned.
C30_ProxyWhenNodesCounted ==
  \A r \in Ranks :
     /\ pc[r] = "ready" => /\ comm[r].nNodes >= 1
                           /\ Cardinality(Proxies(r)) = 1
     /\ pc[r] \notin {"ready", "failed"} => Proxies(r) = {}

\* A rank of a single-node communicator has finished initialization.
C30_Witness ==
  \E r \in Ranks : pc[r] = "ready" /\ comm[r].nNodes = 1 /\ Proxies(r) # {}

\* The masters of a gathered table that precede rank q: the index of q among
\* the masters when q is one.
MastersBelow(board, q) == Cardinality({i \in DOMAIN board : i < q /\ board[i].isMaster})

\* The last entry of the given kind and side in a log, 0 if there is none.
LastOf(l, kind, side) ==
  LET ns == At(l, kind, side)
  IN IF ns = {} THEN 0 ELSE CHOOSE n \in ns : \A m \in ns : m <= n

\* C27: within the collective-network setup of a logical channel, every
\* exchange record a receive-side master has sent to its paired send-side
\* master was sent after the AllGather of the connect handles had completed
\* and carries what the consolidation yields: the sender's index among the
\* masters of the gathered table and the descriptor the table holds at that
\* index, the sender itself holding the consolidated table on return from
\* the recv-side call.  A send-side master that has connected did so with an
\* index and a descriptor it had received before: those of its paired
\* receive-side master.
C27_ExchangeAfterConsolidation ==
  /\ \A r \in Ranks : \A n \in 1..Len(sendrecvExchange[r]) :
       LET m == sendrecvExchange[r][n]
           board == allConnects[m.channel]
       IN /\ Gathered(board)
          /\ board[m.from].isMaster
          /\ r = sendMaster(m.from)
          /\ m.collNetRank = MastersBelow(board, m.from)
          /\ m.connect = board[m.from].connect
          /\ pc[m.from] = "cnSend" =>
               \A q \in Members : board[q].isMaster =>
                  loc[m.from].masterConnects[MastersBelow(board, q) + 1] = board[q].connect
  /\ \A r \in Ranks :
       LET used == LastOf(log[r], "cnConnect", "send")
           got == LastOf(log[r], "cnReceived", "send")
           board == allConnects[loc[r].cnChannel]
           peer == recvMaster(r)
       IN (pc[r] \in {"cnDone", "checkCollNet", "tune"} /\ used # 0) =>
            /\ got # 0 /\ got < used
            /\ log[r][got][3] = log[r][used][3]
            /\ Gathered(board)
            /\ log[r][used][3] = MastersBelow(board, peer)
            /\ loc[r].rankInCollNet = MastersBelow(board, peer)
            /\ loc[r].masterConnects[loc[r].rankInCollNet + 1] = board[peer].connect

\* The master of the second node has connected its send side as master 1 of
\* 2 with the descriptor its recv-side setup produced, after a record was
\* exchanged; and a record of the first node's master is in flight.
C27_Witness ==
  /\ pc[LastRank] = "cnDone"
  /\ At(log[LastRank], "cnSent", "recv") # {}
  /\ <<"cnConnect", "send", 1>> \in {log[LastRank][n] : n \in At(log[LastRank], "cnConnect", "send")}
  /\ loc[LastRank].masterConnects = <<0, Descriptor(LastRank, 1)>>
  /\ Len(sendrecvExchange[0]) = 1
  /\ sendrecvExchange[0][1].collNetRank = 0
  /\ sendrecvExchange[0][1].connect = Descriptor(0, 1)

\* The entries of a log that record a failed call of collNetSetup or a probe
\* that found the collective network unsupported.
Setbacks(l) ==
  {n \in 1..Len(l) : \/ l[n][1] = "cnFailed"
                     \/ l[n][1] = "cnProbe" /\ l[n][3] <= 0}

\* The returns of collNetSetup recorded in a log.
Returned(l) == Logged(l, {"cnReturn"})

\* C28: once a call of collNetSetup in which the probe returned unsupported
\* or a probe, setup, connect or exchange call failed, with whatever error
\* code, has returned, the rank's local failure flag is set; and a call of
\* collNetSetup returns 1 only if no call it made failed and its probe, if
\* it made one, was positive.
C28_FailureSetsFlag ==
  \A r \in Ranks :
    /\ \A n \in Setbacks(log[r]) :
         (\E m \in Returned(log[r]) : n < m) => loc[r].collNetSetupFail = 1
    /\ \A m \in Returned(log[r]) :
         log[r][m][3] = 1 =>
           \A n \in Setbacks(log[r]) :
              n < m => \E k \in Returned(log[r]) : n < k /\ k < m

\* The failure C28 overlooks: a rank has left the loop of collNetSetup calls
\* with its flag at 0 although a call it made failed, and initialization
\* completes with the collective network enabled on every rank.
C28_FailureUnflagged ==
  \E r \in Ranks :
    /\ At(log[r], "cnFailed", "send") # {}
    /\ loc[r].collNetSetupFail = 0
    /\ \A q \in Ranks : pc[q] = "tune" /\ comm[q].collNetSupport = 1

\* C31: a rank that has returned from a successful commAlloc(ndev, rank) and
\* not yet gone on holds a communicator whose rank and nRanks are the
\* arguments, whose MAXCHANNELS channel slots all have id -1, whose abort
\* flag and p2pNet flag are 0, whose fatalError is ncclSuccess, whose
\* collNetSupport is 0 and whose operation counters are all zero.
C31_FreshCommunicator ==
  \A r \in Ranks : pc[r] = "bootstrapInit" =>
    /\ heap[r] = "live"
    /\ comm[r].rank = hw.call[r].myrank
    /\ comm[r].nRanks = hw.call[r].nranks
    /\ DOMAIN comm[r].channels = 0..(MAXCHANNELS - 1)
    /\ \A c \in 0..(MAXCHANNELS - 1) : comm[r].channels[c].id = -1
    /\ comm[r].abortFlag = 0 /\ comm[r].p2pNet = 0
    /\ comm[r].fatalError = "ncclSuccess"
    /\ comm[r].collNetSupport = 0
    /\ comm[r].asyncOpCount = 0 /\ comm[r].asyncTotalSize = 0
    /\ comm[r].p2pSendCount = 0 /\ comm[r].p2pRecvCount = 0

\* The last rank has allocated its communicator as rank LastRank of NRanks
\* while another rank's commAlloc has failed.
C31_Witness ==
  /\ pc[LastRank] = "bootstrapInit"
  /\ comm[LastRank].rank = LastRank /\ comm[LastRank].nRanks = NRanks
  /\ comm[LastRank].channels[MAXCHANNELS - 1].id = -1
  /\ \E q \in Ranks : pc[q] = "failed" /\ heap[q] # "live"

\* Rank r is past computeBuffSizes.
Sized(r) == pc[r] \in {"collNet", "checkCollNet", "tune", "ready"}

\* C32: once a rank has computed its buffer sizes, the size of each of the
\* three protocols is the configured override when one is set (a value other
\* than -2) and otherwise the protocol's default, which for the simple
\* protocol is the ARM default exactly when the CPU architecture is ARM; the
\* sizes depend on nothing else, and the device-mirrored table equals the
\* host-side one.
C32_BuffSizes ==
  \A r \in Ranks : Sized(r) =>
    LET env == hw.buffSizeEnv[r]
    IN /\ comm[r].buffSizes[NCCL_PROTO_LL] =
            IF env[NCCL_PROTO_LL] # -2 THEN env[NCCL_PROTO_LL] ELSE DEFAULT_LL_BUFFSIZE
       /\ comm[r].buffSizes[NCCL_PROTO_LL128] =
            IF env[NCCL_PROTO_LL128] # -2 THEN env[NCCL_PROTO_LL128]
            ELSE DEFAULT_LL128_BUFFSIZE
       /\ comm[r].buffSizes[NCCL_PROTO_SIMPLE] =
            IF env[NCCL_PROTO_SIMPLE] # -2 THEN env[NCCL_PROTO_SIMPLE]
            ELSE IF hw.cpuArch[r] = "ARM" THEN DEFAULT_BUFFSIZE_ARM
            ELSE DEFAULT_BUFFSIZE
       /\ comm[r].devBuffSizes = comm[r].buffSizes

\* On an ARM machine with only the low-latency size overridden (to 0), a
\* rank has the override, the LL128 default and the 1 MiB simple default.
C32_Witness ==
  \E r \in Ranks :
    /\ Sized(r)
    /\ hw.cpuArch[r] = "ARM" /\ hw.buffSizeEnv[r] = <<0, -2, -2>>
    /\ comm[r].buffSizes = <<0, DEFAULT_LL128_BUFFSIZE, 1048576>>
    /\ comm[r].devBuffSizes = comm[r].buffSizes

\* The logical channels for which rank r has returned from the recv-side
\* call of collNetSetup.
RecvReturned(r) ==
  {log[r][n][3] : n \in At(log[r], "p2pConnect", "collNet")}
    \ (IF pc[r] \in {"cnRecv", "cnGather"} THEN {loc[r].cnChannel} ELSE {})

\* C33: every rank takes part in every AllGather of the collective-network
\* setup: a rank that has returned from the recv-side collNetSetup call of a
\* logical channel, whatever its probe, setup or connect outcome, has
\* contributed to that channel's AllGather of connect handles, and a rank
\* that has contributed to the final AllGather of failure flags has
\* contributed to the AllGather of every logical channel before.
C33_AllParticipate ==
  \A r \in Ranks :
    /\ \A c \in RecvReturned(r) : r \in DOMAIN allConnects[c]
    /\ r \in DOMAIN allGatherFailures =>
         \A c \in 0..(comm[r].nChannels \div 2 - 1) : r \in DOMAIN allConnects[c]

\* A rank is in the AllGather of failure flags while another waits in the
\* AllGather of connect handles that the first one has skipped.
C33_RoundsDiffer ==
  \E r, q \in Ranks :
    /\ r \in DOMAIN allGatherFailures /\ r \notin DOMAIN allConnects[0]
    /\ pc[q] = "cnGather" /\ loc[q].cnChannel = 0

\* The run's only failures, if any, are those the collective-network setup
\* is meant to tolerate: a probe reporting unsupported, or a failing setup
\* or connect call on the recv side.
Tolerated ==
  \A q \in Ranks :
    /\ hw.fault[q] = "none"
    /\ \/ hw.cnFault[q].call = "none"
       \/ hw.cnFault[q].side = "recv" /\ hw.cnFault[q].call \in {"setup", "connect"}

\* C34: the collective-network setup terminates on every rank even when it
\* fails locally: in a run whose only failures are a receive-side master's
\* unsupported probe or failing setup or connect call, every rank that
\* enters the loop of collNetSetup calls eventually contributes to the final
\* AllGather of failure flags, no rank staying blocked in an AllGather or in
\* a bootstrapRecv.
C34_SetupTerminates ==
  \A r \in Ranks :
    (Tolerated /\ pc[r] = "cnRecv") ~> (r \in DOMAIN allGatherFailures)

\* The collective-network setup does terminate on every rank when a
\* receive-side master's probe reports unsupported and no call fails.
C34_ProbeTolerated ==
  \A r \in Ranks :
    ((\A q \in Ranks : hw.fault[q] = "none" /\ hw.cnFault[q].call = "none")
       /\ pc[r] = "cnRecv") ~> (r \in DOMAIN allGatherFailures)

\* Rank r has evaluated the condition of lines 1093-1095.
Gated(r) == pc[r] \in {"checkCollNet", "tune", "ready"}

\* C35: all ranks of a communicator take the same decision at the gate of
\* the collective-network setup: of two ranks that have evaluated it, either
\* both have run the setup and entered the final AllGather of failure flags
\* or neither has.
C35_SameGate ==
  \A r, q \in Ranks :
    (Gated(r) /\ Gated(q)) =>
       ((r \in DOMAIN allGatherFailures) <=> (q \in DOMAIN allGatherFailures))

\* The ranks disagree: one waits in the AllGather of failure flags for a rank
\* that has skipped the block and gone on to tuning.
C35_GateDiffers ==
  \E r, q \in Ranks :
    /\ pc[r] = "checkCollNet" /\ r \in DOMAIN allGatherFailures
    /\ pc[q] = "tune" /\ q \notin DOMAIN allGatherFailures
    /\ comm[r].nNodes = comm[q].nNodes

\* C36: ncclInit never returns while holding the initialization lock: a
\* thread that is outside ncclInit, whatever its last call returned, does
\* not own initLock.
C36_LockReleased ==
  \A r \in Ranks : caller[r].pc = "out" => initLock[Process(r)] # r

\* After a failed attempt the lock is still owned by the thread that has
\* returned, the flag is clear, and another thread of the process waits for
\* the lock to retry, which it never gets.
C36_RetryBlocked ==
  \E r, q \in Ranks :
    /\ r # q /\ Process(r) = Process(q)
    /\ caller[r].pc = "out" /\ caller[r].res = "ncclSystemError"
    /\ initLock[Process(r)] = r /\ ~initialized[Process(r)]
    /\ caller[q].pc = "lock"

\* C37: under fair scheduling every participant other than intra-rank 0
\* that enters the waits of ncclCommSetIntra eventually has left all five of
\* them, also in runs in which intra-rank 0 fails before or while it
\* allocates and publishes the shared structures.
C37_AdoptTerminates ==
  \A r \in Ranks : (pc[r] = "adopt") ~> (pc[r] # "adopt")

\* In the runs in which intra-rank 0 does not fail, the waits do end.
C37_AdoptAfterPublish ==
  \A r \in Ranks :
    (pc[r] = "adopt" /\ hw.fault[0] = "none" /\ hw.intraAllocFail[0] = 0)
       ~> (pc[r] # "adopt")

\* C38: the abort flag of a communicator is monotonic.  It is 0 when the
\* communicator is allocated; while the communicator exists no step changes
\* it except a call of ncclCommAbort on that communicator, which takes it
\* from 0 to 1; once 1 it stays 1 until the communicator is freed.
C38_AbortFlagMonotonic ==
  [][\A r \in Ranks :
       /\ (heap[r] # "live" /\ heap'[r] = "live") => comm'[r].abortFlag = 0
       /\ (heap[r] = "live" /\ heap'[r] = "live") =>
            /\ comm[r].abortFlag = 1 => comm'[r].abortFlag = 1
            /\ comm'[r].abortFlag # comm[r].abortFlag =>
                 /\ api'[r].op = "ncclCommAbort" /\ pc'[r] = pc[r]
                 /\ comm[r].abortFlag = 0 /\ comm'[r].abortFlag = 1]_vars

\* One communicator has been aborted and still has its flag at 1 after
\* another one, never aborted and its flag at 0, has been destroyed.
C38_Witness ==
  \E r, q \in Ranks :
    /\ r # q
    /\ heap[r] = "live" /\ pc[r] = "ready" /\ comm[r].abortFlag = 1
    /\ api[r].op = "ncclCommAbort"
    /\ pc[q] = "destroyed" /\ api[q].op = "ncclCommDestroy"

\* The ring of channel c as rank r holds it.
UserRanks(r, c) == comm[r].channels[c].userRanks

\* C39: the ranks' rings of a channel agree.  Of two ranks r and s that have
\* set up channel c from the published ring order, s is the second element
\* of r's userRanks exactly when r is the last element of s's userRanks, and
\* each rank's userRanks lists every rank exactly once.
C39_RingsAgree ==
  \A r, s \in Ranks :
    (Sized(r) /\ Sized(s)) =>
      \A c \in 0..(comm[r].nChannels - 1) :
        /\ Len(UserRanks(r, c)) = nRanks
        /\ {UserRanks(r, c)[i] : i \in 1..nRanks} = Members
        /\ (UserRanks(r, c)[(1 % nRanks) + 1] = s) <=> (UserRanks(s, c)[nRanks] = r)

\* All ranks have set up channel 0 from a ring order that is not the
\* ascending one: rank 0 is followed by the last rank, which has rank 0 last.
C39_Witness ==
  /\ \A r \in Ranks : Sized(r) /\ comm[r].nChannels >= 1
  /\ hw.rings[0][1] # 0
  /\ UserRanks(0, 0)[2] = LastRank
  /\ UserRanks(LastRank, 0)[NRanks] = 0
  /\ UserRanks(LastRank, 0)[1] = LastRank

\* The ranks of r's process that have the results of the scan.
ScannedPeers(r) == {s \in SameProcess(r) : Scanned(s)}

\* C40: one allocator per process.  The ranks with one (hostHash, pidHash)
\* that go on after AllGather1 hold the same intraRank0 and intraRanks; when
\* all of them have gone on their intraRank values are 0..intraRanks-1, each
\* taken once; intraRank is 0 on the rank intraRank0 and on no other; and
\* on no rank does the scan of a gathered array end with intraRank or
\* intraRank0 at -1.
C40_OneAllocator ==
  /\ \A r \in Ranks :
       Scanned(r) =>
         /\ \A s \in ScannedPeers(r) :
              /\ loc[s].intraRank0 = loc[r].intraRank0
              /\ loc[s].intraRanks = loc[r].intraRanks
              /\ (loc[s].intraRank = loc[r].intraRank) => s = r
         /\ loc[r].intraRank \in 0..(loc[r].intraRanks - 1)
         /\ (loc[r].intraRank = 0) <=> (r = loc[r].intraRank0)
         /\ ScannedPeers(r) = SameProcess(r) =>
              {loc[s].intraRank : s \in SameProcess(r)} = 0..(loc[r].intraRanks - 1)
  /\ Gathered(allGather1Data) =>
       \A r \in Ranks :
          /\ IntraRanks(allGather1Data, r).intraRank # -1
          /\ IntraRanks(allGather1Data, r).intraRank0 # -1

\* Every rank has gone on after AllGather1; rank 0 and the last rank are one
\* process with rank 0 its allocator, and rank 1, between them, is the
\* allocator of another.
C40_Witness ==
  /\ \A r \in Ranks : Scanned(r)
  /\ SameProcess(0) = {0, LastRank}
  /\ loc[0].intraRank = 0 /\ loc[LastRank].intraRank = 1
  /\ loc[LastRank].intraRank0 = 0 /\ loc[LastRank].intraRanks = 2
  /\ loc[1].intraRank = 0 /\ loc[1].intraRank0 = 1
====
